---------------------------- MODULE Spec2Model ----------------------------
(***************************************************************************)
(* A model of the beatrix automation engine:                               *)
(*   - the Ollama tool loop (src/server/ollama.ts),                        *)
(*   - the scheduling reconciler (src/server/workflow/scheduler-step.ts),  *)
(*   - the hub client's callService (lib/ha-ws-api, known from its tests   *)
(*     in src/unnamed/part_001).                                           *)
(* Each subsystem has its own specification over its own variables; the    *)
(* variables of the other subsystems stay at their initial value.          *)
(***************************************************************************)
EXTENDS Integers, Sequences, FiniteSets, TLC

VARIABLES
  \* ---- tool loop (OllamaLargeLanguageProvider._executePromptWithTools)
  pc,              \* position of the generator: setup, loop, tools, done, failed
  prompt,          \* the prompt argument, a sequence of characters
  previousMessages,\* the previousMessages argument (canonical messages)
  toolClientMap,   \* the tool names some connected client offers
  iterationCount,  \* the loop's iteration counter
  msgs,            \* the conversation buffer (Ollama messages)
  emitted,         \* what the observable has emitted (canonical messages)
  toolCalls,       \* the tool calls of the current response not yet processed
  chatLog,         \* provider side: per chat request, the messages sent and the reply
  handlerLog,      \* tool-server side: the handler invocations, in order
  nowMs,           \* Date.now()
  subscribed,      \* the consumer still holds its subscription to the observable
  awaiting,        \* the promises the generator is suspended on: listTools, chat, a tool
  \* ---- scheduling reconciler (rescheduleAutomations)
  spc,             \* position of rescheduleAutomations
  automations,     \* the automations argument
  idx,             \* index of the automation being examined
  signals,         \* the signals table
  automationLogs,  \* the automationLogs table
  transcript,      \* the scheduling conversation drained so far
  llmRuns,         \* the scheduling conversations opened: position and hash
  examined,        \* per "Examining automation" line: position, hash, store's answer
  thrown,          \* what rejected rescheduleAutomations: "", readFile, provider or insert
  \* ---- hub client (LiveHomeAssistantApi.callService)
  testMode,        \* the constructor's testMode flag
  sent,            \* the messages handed to connection.sendMessagePromise
  settled,         \* the callService calls made: arguments and how each settled
  \* ---- prompt requests (ServerWebsocketApiImpl.handlePromptRequest)
  logs,            \* the automationLogs table as the requests see it: row id is the position
  reqs,            \* the prompt requests made, each with its closure's state
  passes,          \* the calls of rescheduleAutomations made, each with its position
  runtimes,        \* serve: the runtimes started up, each with its start-up's position
  currentSub,      \* serve: the runtime whose subscription currentSub holds (0: none)
  currentRuntime,  \* serve: the runtime currentRuntime names (0: undefined)
  exiting,         \* serve: the module's exiting flag
  shutdown,        \* serve: where flushAndExit stands, with the runtime it was given
  dbLog,           \* serve: what has touched the database, in order
  sigs,            \* serve: the signals received, each with currentRuntime as its handler saw it
  rpcLog,          \* serve: for each websocket message, who handled it
  run,             \* one call of runScenario: its position, its graders and what they returned
  grading,         \* one call of a content grader: its needles, its messages and its result
  store,           \* firing: the durable signals and execute-signal rows
  proc,            \* firing: the engine process: up or down, its timers and its jobs in flight
  fires,           \* firing: how often each signal has fired, over all restarts
  jobq,            \* ordering: per hash, the scheduling job, the event queue and the jobs run
  cfg              \* config file: the file on disk and the call that saves or loads it

loopVars == <<pc, prompt, previousMessages, toolClientMap, iterationCount,
              msgs, emitted, toolCalls, chatLog, handlerLog, nowMs, subscribed, awaiting>>
schedVars == <<spc, automations, idx, signals, automationLogs, transcript, llmRuns, examined, thrown>>
hubVars == <<testMode, sent, settled>>
apiVars == <<logs, reqs>>
passVars == <<passes>>
serveVars == <<runtimes, currentSub, currentRuntime, exiting, shutdown, dbLog, sigs, rpcLog>>
evalVars == <<run, grading>>
fireVars == <<store, proc, fires>>
orderVars == <<jobq>>
configVars == <<cfg>>
laterVars == <<apiVars, passVars, serveVars, evalVars, fireVars, orderVars, configVars>>
vars == <<loopVars, schedVars, hubVars, laterVars>>

\* ------------------------------------------------------------------ bounds
MaxToolCalls == 2     \* tool calls the model requests in one invocation
MaxClock == 1         \* Date.now() ranges over 0..MaxClock
MaxAutomations == 2   \* automations handed to rescheduleAutomations
MaxSchedulerCalls == 2\* tool calls and provider timeouts of the conversations of one reconciliation
MaxHubCalls == 2      \* callService calls on one api instance
MaxEntityIds == 2     \* entity ids in one target array
MaxPasses == 2        \* calls of rescheduleAutomations on one runtime
MaxRuntimes == 3      \* runtimes the serve command starts up, the first included
MaxJobs == 2          \* database accesses by jobs of the served runtimes
MaxSignals == 2       \* signals the serving process receives
MaxRpcMessages == 1   \* websocket messages the serving process receives
MaxProviders == 2     \* entries of a config's openAIProviders
MaxGraders == 2       \* graders of one scenario
MaxTranscript == 2    \* messages of one scenario's conversation
MaxNeedles == 2       \* strings one content grader looks for
MaxCrashes == 1       \* crashes of the engine while signals fire
MaxFirings == 3       \* firings of the stored signals in all
MaxEvents == 3        \* events the trigger engine emits in all
MaxRequests == 2      \* prompt requests made to one api instance
MaxMessages == 2      \* messages the prompt requests' conversations emit in all

\* ------------------------------------------------------- program constants
MAX_ITERATIONS == 10

RECURSIVE SeqSum(_)
SeqSum(s) == IF s = <<>> THEN 0 ELSE Head(s) + SeqSum(Tail(s))

Last(s) == s[Len(s)]

SelectIdx(s, P(_)) == {i \in 1..Len(s) : P(s[i])}

Count(s, P(_)) == Cardinality(SelectIdx(s, P))

\* ======================================================================
\*                              TOOL LOOP
\* ======================================================================

\* The names a model may ask for: "get-entities" may be offered by a
\* connected tool server, "bogus" never is.
ToolNames == {"get-entities", "bogus"}

NoTool == ""

\* An Ollama Message {role, content, tool_calls?}. content is kept as what it
\* says (kind) and the tool it is about; hasCalls is "tool_calls is defined".
OllamaMsg(role, kind, tool, hasCalls, calls) ==
  [role |-> role, kind |-> kind, tool |-> tool, hasCalls |-> hasCalls, tool_calls |-> calls]

\* A canonical content block.
TextBlock(kind) == [type |-> "text", id |-> <<>>, name |-> NoTool, kind |-> kind]

ToolUseBlock(id, name) == [type |-> "tool_use", id |-> id, name |-> name, kind |-> "input"]

ToolResultBlock(id, kind, name) == [type |-> "tool_result", id |-> id, name |-> name, kind |-> kind]

\* A canonical MessageParam: content is a string (isArray = FALSE, kind says
\* which) or an array of blocks.
StringParam(role, kind) == [role |-> role, isArray |-> FALSE, kind |-> kind, blocks |-> <<>>]

BlocksParam(role, blocks) == [role |-> role, isArray |-> TRUE, kind |-> "", blocks |-> blocks]

\* `toolu_${name}_${Date.now()}` and `toolu_${Date.now()}`, as their parts.
ToolUseId(name, t) == <<"toolu", name, t>>

ToolResultId(t) == <<"toolu", t>>

convertOllamaMessageToAnthropic(msg, t) ==
  IF msg.role = "tool"
  THEN BlocksParam("user", <<ToolResultBlock(ToolResultId(t), msg.kind, msg.tool)>>)
  ELSE IF msg.role = "assistant" /\ msg.hasCalls
  THEN BlocksParam("assistant",
         (IF msg.kind # "" THEN <<TextBlock(msg.kind)>> ELSE <<>>) \o
         [i \in 1..Len(msg.tool_calls) |-> ToolUseBlock(ToolUseId(msg.tool_calls[i], t), msg.tool_calls[i])])
  ELSE StringParam(msg.role, msg.kind)

convertAnthropicMessageToOllama(m) ==
  IF m.role = "user" /\ m.isArray /\ \E i \in 1..Len(m.blocks) : m.blocks[i].type = "tool_result"
  THEN LET i == CHOOSE j \in 1..Len(m.blocks) :
                  /\ m.blocks[j].type = "tool_result"
                  /\ \A k \in 1..(j - 1) : m.blocks[k].type # "tool_result"
       IN OllamaMsg("tool", m.blocks[i].kind, m.blocks[i].name, FALSE, <<>>)
  ELSE OllamaMsg(m.role, IF m.isArray THEN "joined" ELSE m.kind, NoTool, FALSE, <<>>)

\* prompt.trim(): the prompt without its leading and trailing blanks.
RECURSIVE TrimLeft(_)
TrimLeft(s) == IF s # <<>> /\ Head(s) = " " THEN TrimLeft(Tail(s)) ELSE s

RECURSIVE TrimRight(_)
TrimRight(s) == IF s # <<>> /\ Last(s) = " " THEN TrimRight(SubSeq(s, 1, Len(s) - 1)) ELSE s

Trim(s) == TrimRight(TrimLeft(s))

Prompts == {<<" ">>, <<"h", "i">>}

PreviousConversations ==
  { <<>>,
    << BlocksParam("assistant", <<ToolUseBlock(<<"toolu_prev">>, "get-entities")>>),
       BlocksParam("user", <<ToolResultBlock(<<"toolu_prev">>, "ok", "get-entities")>>) >> }

\* The tool_calls a response may carry: 1..n names.
CallLists(n) == UNION {[1..k -> ToolNames] : k \in 1..n}

IsToolCallMsg(m) == m.role = "assistant" /\ m.hasCalls /\ Len(m.tool_calls) > 0

\* The tool calls the model has requested so far in this invocation.
Requested(ms) ==
  SeqSum([i \in 1..Len(ms) |-> IF IsToolCallMsg(ms[i]) THEN Len(ms[i].tool_calls) ELSE 0])

\* What the subscriber is handed when the generator yields m: m through
\* map(convertOllamaMessageToAnthropic), or nothing once it has unsubscribed.
Emit(m) ==
  IF subscribed THEN Append(emitted, convertOllamaMessageToAnthropic(m, nowMs)) ELSE emitted

\* A generator that runs on after a yield nobody listens to.
Resume_Regardless(next) == next

\* Where the generator is after a yield: from() pulls the next value while the
\* subscriber is open, and returns the generator at the yield once it is closed.
Resume(next) == IF subscribed THEN next ELSE "returned"

\* msgs.push(m); yield msgs[msgs.length - 1]
PushAndYield(m) ==
  /\ msgs' = Append(msgs, m)
  /\ emitted' = Emit(m)

\* A loop head that lets one iteration too many through.
LoopHead_OffByOne(n) == IF n <= MAX_ITERATIONS THEN "loop" ELSE "done"

\* while (iterationCount < MAX_ITERATIONS): where control goes from the loop head.
LoopHead(n) == IF n < MAX_ITERATIONS THEN "loop" ELSE "done"

LoopInit ==
  /\ pc = "setup"
  /\ prompt \in Prompts
  /\ previousMessages \in PreviousConversations
  /\ toolClientMap = {"get-entities"}
  /\ iterationCount = 0
  /\ msgs = <<>>
  /\ emitted = <<>>
  /\ toolCalls = <<>>
  /\ chatLog = <<>>
  /\ handlerLog = <<>>
  /\ nowMs = 0
  /\ subscribed = TRUE
  /\ awaiting = <<>>

\* A setup that tests `prompt` where the code tests `prompt.trim()`.
Setup_NoTrim ==
  /\ pc = "setup"
  /\ LET prev == [i \in 1..Len(previousMessages) |-> convertAnthropicMessageToOllama(previousMessages[i])]
         p == OllamaMsg("user", "prompt", NoTool, FALSE, <<>>)
     IN IF prompt # <<>>
        THEN /\ msgs' = Append(prev, p)
             /\ emitted' = Append(emitted, convertOllamaMessageToAnthropic(p, nowMs))
        ELSE /\ msgs' = prev
             /\ emitted' = emitted
  /\ iterationCount' = 0
  /\ pc' = LoopHead(0)
  /\ UNCHANGED <<prompt, previousMessages, toolClientMap, toolCalls, chatLog, handlerLog, nowMs>>

\* Lines 216-235: the counter, the converted previous messages, the prompt.
Setup ==
  /\ pc = "setup"
  /\ LET prev == [i \in 1..Len(previousMessages) |-> convertAnthropicMessageToOllama(previousMessages[i])]
         p == OllamaMsg("user", "prompt", NoTool, FALSE, <<>>)
     IN IF Trim(prompt) # <<>>
        THEN /\ msgs' = Append(prev, p)
             /\ emitted' = Emit(p)
             /\ pc' = Resume(LoopHead(0))
        ELSE /\ msgs' = prev
             /\ emitted' = emitted
             /\ pc' = LoopHead(0)
  /\ iterationCount' = 0
  /\ UNCHANGED <<prompt, previousMessages, toolClientMap, toolCalls, chatLog, handlerLog, nowMs>>

\* One provider request: iterationCount++ and ollama.chat under withTimeout,
\* sent with the first Len(msgs) messages of the buffer and settled by `reply`.
Request(reply) ==
  /\ iterationCount' = iterationCount + 1
  /\ chatLog' = Append(chatLog, [sent |-> Len(msgs), reply |-> reply])

\* A timeout handler that gives up on the second timeout in a row.
ProviderTimeout_GiveUpOnSecond ==
  /\ pc = "loop"
  /\ Request("timeout")
  /\ PushAndYield(OllamaMsg("assistant", "apology", NoTool, FALSE, <<>>))
  /\ pc' = IF chatLog # <<>> /\ chatLog[Len(chatLog)].reply = "timeout"
           THEN "done" ELSE LoopHead(iterationCount')
  /\ UNCHANGED <<prompt, previousMessages, toolClientMap, toolCalls, handlerLog, nowMs>>

\* A timeout whose synthetic message goes into the buffer without being yielded.
ProviderTimeout_Silent ==
  /\ pc = "loop"
  /\ Request("timeout")
  /\ msgs' = Append(msgs, OllamaMsg("assistant", "apology", NoTool, FALSE, <<>>))
  /\ pc' = LoopHead(iterationCount')
  /\ UNCHANGED <<prompt, previousMessages, toolClientMap, emitted, toolCalls, handlerLog, nowMs>>

\* A timeout that does not count against the iteration budget.
ProviderTimeout_FreeRetry ==
  /\ pc = "loop"
  /\ chatLog' = Append(chatLog, [sent |-> Len(msgs), reply |-> "timeout"])
  /\ iterationCount' = iterationCount
  /\ PushAndYield(OllamaMsg("assistant", "apology", NoTool, FALSE, <<>>))
  /\ pc' = Resume(LoopHead(iterationCount'))
  /\ UNCHANGED <<prompt, previousMessages, toolClientMap, toolCalls, handlerLog, nowMs>>

\* The request times out: the synthetic assistant message, then `continue`.
ProviderTimeout ==
  /\ pc = "loop"
  /\ Request("timeout")
  /\ PushAndYield(OllamaMsg("assistant", "apology", NoTool, FALSE, <<>>))
  /\ pc' = Resume(LoopHead(iterationCount'))
  /\ UNCHANGED <<prompt, previousMessages, toolClientMap, toolCalls, handlerLog, nowMs>>

\* A catch block that treats every error as it treats a timeout.
ProviderError_Swallowed ==
  /\ pc = "loop"
  /\ Request("error")
  /\ PushAndYield(OllamaMsg("assistant", "apology", NoTool, FALSE, <<>>))
  /\ pc' = LoopHead(iterationCount')
  /\ UNCHANGED <<prompt, previousMessages, toolClientMap, toolCalls, handlerLog, nowMs>>

\* The request fails otherwise (5xx, rate limit, connection): rethrown.
ProviderError ==
  /\ pc = "loop"
  /\ Request("error")
  /\ pc' = "failed"
  /\ UNCHANGED <<prompt, previousMessages, toolClientMap, msgs, emitted, toolCalls, handlerLog, nowMs>>

\* A response without tool calls that does not leave the loop.
ProviderAnswer_NoBreak ==
  /\ pc = "loop"
  /\ Request("answer")
  /\ \E hasCalls \in BOOLEAN :
       PushAndYield(OllamaMsg("assistant", "answer", NoTool, hasCalls, <<>>))
  /\ pc' = LoopHead(iterationCount')
  /\ UNCHANGED <<prompt, previousMessages, toolClientMap, toolCalls, handlerLog, nowMs>>

\* The response has no tool calls (tool_calls undefined or empty): `break`.
ProviderAnswer ==
  /\ pc = "loop"
  /\ Request("answer")
  /\ \E hasCalls \in BOOLEAN :
       PushAndYield(OllamaMsg("assistant", "answer", NoTool, hasCalls, <<>>))
  /\ pc' = Resume("done")
  /\ UNCHANGED <<prompt, previousMessages, toolClientMap, toolCalls, handlerLog, nowMs>>

\* The response asks for tools.
ProviderToolCalls ==
  /\ pc = "loop"
  /\ Request("calls")
  /\ \E calls \in CallLists(MaxToolCalls - Requested(msgs)),
        kind \in (IF Requested(msgs) = 0 THEN {"", "thinking"} ELSE {""}) :
       /\ PushAndYield(OllamaMsg("assistant", kind, NoTool, TRUE, calls))
       /\ toolCalls' = calls
  /\ pc' = Resume("tools")
  /\ UNCHANGED <<prompt, previousMessages, toolClientMap, handlerLog, nowMs>>

\* A for loop that looks at the iteration budget before its next tool call.
AfterToolCall_BudgetFirst ==
  /\ toolCalls' = IF iterationCount >= MAX_ITERATIONS THEN <<>> ELSE Tail(toolCalls)
  /\ pc' = IF iterationCount >= MAX_ITERATIONS THEN "done"
           ELSE IF Tail(toolCalls) # <<>> THEN "tools" ELSE LoopHead(iterationCount)

\* After the yield that ends one tool call of the for loop: the next call, or
\* the loop head.
AfterToolCall ==
  /\ toolCalls' = Tail(toolCalls)
  /\ pc' = Resume(IF Tail(toolCalls) # <<>> THEN "tools" ELSE LoopHead(iterationCount))

\* A not-found branch that leaves the for loop (`break` for `continue`).
ToolNotFound_Break ==
  /\ pc = "tools"
  /\ Head(toolCalls) \notin toolClientMap
  /\ PushAndYield(OllamaMsg("tool", "not-found", Head(toolCalls), FALSE, <<>>))
  /\ toolCalls' = <<>>
  /\ pc' = LoopHead(iterationCount)
  /\ UNCHANGED <<prompt, previousMessages, toolClientMap, iterationCount, chatLog, handlerLog, nowMs>>

\* No client offers the tool: the not-found message, then `continue`.
ToolNotFound ==
  /\ pc = "tools"
  /\ Head(toolCalls) \notin toolClientMap
  /\ PushAndYield(OllamaMsg("tool", "not-found", Head(toolCalls), FALSE, <<>>))
  /\ AfterToolCall
  /\ UNCHANGED <<prompt, previousMessages, toolClientMap, iterationCount, chatLog, handlerLog, nowMs>>

\* What a failed or finished client.callTool under withTimeout leaves.
ToolResultKind(outcome) ==
  CASE outcome = "ok" -> "ok"
    [] outcome = "timeout" -> "timed-out"
    [] outcome = "throw" -> "error"

\* A tool call without the try/catch: what the handler throws, and the
\* TimeoutError, leave the generator.
ToolCall_Unguarded ==
  /\ pc = "tools"
  /\ Head(toolCalls) \in toolClientMap
  /\ \E outcome \in {"ok", "throw", "timeout"} :
       /\ handlerLog' = Append(handlerLog, [tool |-> Head(toolCalls), outcome |-> outcome])
       /\ IF outcome = "ok"
          THEN /\ PushAndYield(OllamaMsg("tool", "ok", Head(toolCalls), FALSE, <<>>))
               /\ AfterToolCall
          ELSE /\ pc' = "failed"
               /\ UNCHANGED <<msgs, emitted, toolCalls>>
  /\ UNCHANGED <<prompt, previousMessages, toolClientMap, iterationCount, chatLog, nowMs>>

\* A tool call whose result joins the results of the same assistant message in
\* one user message.
ToolCall_Collects ==
  /\ pc = "tools"
  /\ Head(toolCalls) \in toolClientMap
  /\ \E outcome \in {"ok", "throw", "timeout"} :
       /\ handlerLog' = Append(handlerLog, [tool |-> Head(toolCalls), outcome |-> outcome])
       /\ msgs' = Append(msgs, OllamaMsg("tool", ToolResultKind(outcome), Head(toolCalls), FALSE, <<>>))
       /\ emitted' =
            IF emitted # <<>> /\ Last(emitted).role = "user" /\ Last(emitted).isArray
            THEN [emitted EXCEPT ![Len(emitted)] =
                    BlocksParam("user", Append(Last(emitted).blocks,
                      ToolResultBlock(ToolResultId(nowMs), ToolResultKind(outcome), Head(toolCalls))))]
            ELSE Append(emitted, BlocksParam("user",
                   <<ToolResultBlock(ToolResultId(nowMs), ToolResultKind(outcome), Head(toolCalls))>>))
  /\ AfterToolCall
  /\ UNCHANGED <<prompt, previousMessages, toolClientMap, iterationCount, chatLog, nowMs>>

\* client.callTool under withTimeout: it returns, throws or times out.
ToolCall ==
  /\ pc = "tools"
  /\ Head(toolCalls) \in toolClientMap
  /\ \E outcome \in {"ok", "throw", "timeout"} :
       /\ handlerLog' = Append(handlerLog, [tool |-> Head(toolCalls), outcome |-> outcome])
       /\ PushAndYield(OllamaMsg("tool", ToolResultKind(outcome), Head(toolCalls), FALSE, <<>>))
  /\ AfterToolCall
  /\ UNCHANGED <<prompt, previousMessages, toolClientMap, iterationCount, chatLog, nowMs>>

\* Time passes.
Tick ==
  /\ nowMs < MaxClock
  /\ nowMs' = nowMs + 1
  /\ UNCHANGED <<pc, prompt, previousMessages, toolClientMap, iterationCount,
                 msgs, emitted, toolCalls, chatLog, handlerLog>>

LoopIdle ==
  /\ pc = "idle"
  /\ prompt = <<>>
  /\ previousMessages = <<>>
  /\ toolClientMap = {}
  /\ iterationCount = 0
  /\ msgs = <<>>
  /\ emitted = <<>>
  /\ toolCalls = <<>>
  /\ chatLog = <<>>
  /\ handlerLog = <<>>
  /\ nowMs = 0
  /\ subscribed = FALSE
  /\ awaiting = <<>>

SchedIdle ==
  /\ spc = "idle"
  /\ automations = <<>>
  /\ idx = 0
  /\ signals = {}
  /\ automationLogs = <<>>
  /\ transcript = <<>>
  /\ llmRuns = <<>>
  /\ examined = <<>>
  /\ thrown = ""

HubIdle ==
  /\ testMode = FALSE
  /\ sent = <<>>
  /\ settled = <<>>

ApiIdle ==
  /\ logs = <<>>
  /\ reqs = <<>>

PassIdle == passes = <<>>

ServeIdle ==
  /\ runtimes = <<>>
  /\ currentSub = 0
  /\ currentRuntime = 0
  /\ exiting = FALSE
  /\ shutdown = [pc |-> "idle", runtime |-> 0, timers |-> 0]
  /\ dbLog = <<>>
  /\ sigs = <<>>
  /\ rpcLog = <<>>

NoResult == [score |-> 0, possible_score |-> 0]

RunIdle == run = [pc |-> "idle"]

GradingIdle == grading = [pc |-> "idle"]

EvalIdle == RunIdle /\ GradingIdle

FireIdle ==
  /\ store = [signals |-> <<>>, logs |-> <<>>]
  /\ proc = [up |-> FALSE, armed |-> {}, jobs |-> {}, lost |-> {}, crashes |-> 0]
  /\ fires = <<>>

OrderIdle == jobq = <<>>

ConfigIdle == cfg = [pc |-> "idle"]

LaterIdle == ApiIdle /\ PassIdle /\ ServeIdle /\ EvalIdle /\ FireIdle /\ OrderIdle /\ ConfigIdle

\* The invocation with each await taken together with what follows it up to
\* the next await, under a subscriber that stays.
LoopNext ==
  \/ Setup /\ UNCHANGED <<subscribed, awaiting, schedVars, hubVars, laterVars>>
  \/ ProviderTimeout /\ UNCHANGED <<subscribed, awaiting, schedVars, hubVars, laterVars>>
  \/ ProviderError /\ UNCHANGED <<subscribed, awaiting, schedVars, hubVars, laterVars>>
  \/ ProviderAnswer /\ UNCHANGED <<subscribed, awaiting, schedVars, hubVars, laterVars>>
  \/ ProviderToolCalls /\ UNCHANGED <<subscribed, awaiting, schedVars, hubVars, laterVars>>
  \/ ToolNotFound /\ UNCHANGED <<subscribed, awaiting, schedVars, hubVars, laterVars>>
  \/ ToolCall /\ UNCHANGED <<subscribed, awaiting, schedVars, hubVars, laterVars>>

\* One invocation of the tool loop, for every prompt, previous conversation and
\* behaviour of the provider and the tools, seen within one reading of the clock.
InitLoop == LoopInit /\ SchedIdle /\ HubIdle /\ LaterIdle

SpecLoop == InitLoop /\ [][LoopNext]_vars

ClockNext ==
  \/ LoopNext
  \/ Tick /\ UNCHANGED <<subscribed, awaiting, schedVars, hubVars, laterVars>>

\* The same invocation with the clock advancing between its steps.
InitLoopClock == InitLoop /\ prompt = <<"h", "i">> /\ previousMessages = <<>>

SpecLoopClock == InitLoopClock /\ [][ClockNext]_vars

\* Every await of the loop settles: the provider request and each tool call
\* run under withTimeout, so a step that can be taken is taken.
FairLoop == SpecLoop /\ WF_vars(LoopNext)

\* ---- the same invocation, await by await, under a subscriber that may leave

loopState == <<pc, prompt, previousMessages, toolClientMap, iterationCount,
               msgs, emitted, toolCalls, chatLog, handlerLog, nowMs>>

\* Lines 166-192: the clients are connected and listTools is awaited.
SetupStart ==
  /\ pc = "setup"
  /\ awaiting = <<>>
  /\ awaiting' = <<"listTools">>
  /\ UNCHANGED <<loopState, subscribed>>

\* Lines 239-259: ollama.chat is called and awaited under withTimeout.
ChatStart ==
  /\ pc = "loop"
  /\ awaiting = <<>>
  /\ awaiting' = <<"chat">>
  /\ UNCHANGED <<loopState, subscribed>>

\* A for loop that starts every call of the response at once (Promise.all).
ToolStart_All ==
  /\ pc = "tools"
  /\ awaiting = <<>>
  /\ Head(toolCalls) \in toolClientMap
  /\ awaiting' = SelectSeq(toolCalls, LAMBDA c : c \in toolClientMap)
  /\ UNCHANGED <<loopState, subscribed>>

\* Lines 306-316: client.callTool is called and awaited under withTimeout.
ToolStart ==
  /\ pc = "tools"
  /\ awaiting = <<>>
  /\ Head(toolCalls) \in toolClientMap
  /\ awaiting' = <<Head(toolCalls)>>
  /\ UNCHANGED <<loopState, subscribed>>

\* The consumer unsubscribes while the generator is suspended on a promise.
Abandon ==
  /\ subscribed
  /\ awaiting # <<>>
  /\ subscribed' = FALSE
  /\ UNCHANGED <<loopState, awaiting>>

\* The consumer unsubscribes as it is handed an element (take, first): from()
\* finds the subscriber closed and returns the generator at that yield.
AbandonOnDelivery ==
  /\ subscribed
  /\ awaiting = <<>>
  /\ pc \in {"loop", "tools"}
  /\ emitted # <<>>
  /\ subscribed' = FALSE
  /\ pc' = "returned"
  /\ UNCHANGED <<prompt, previousMessages, toolClientMap, iterationCount,
                 msgs, emitted, toolCalls, chatLog, handlerLog, nowMs, awaiting>>

AwaitNext ==
  \/ SetupStart /\ UNCHANGED <<schedVars, hubVars, laterVars>>
  \/ awaiting = <<"listTools">> /\ Setup /\ awaiting' = <<>> /\ UNCHANGED <<subscribed, schedVars, hubVars, laterVars>>
  \/ ChatStart /\ UNCHANGED <<schedVars, hubVars, laterVars>>
  \/ awaiting = <<"chat">> /\ ProviderTimeout /\ awaiting' = <<>> /\ UNCHANGED <<subscribed, schedVars, hubVars, laterVars>>
  \/ awaiting = <<"chat">> /\ ProviderError /\ awaiting' = <<>> /\ UNCHANGED <<subscribed, schedVars, hubVars, laterVars>>
  \/ awaiting = <<"chat">> /\ ProviderAnswer /\ awaiting' = <<>> /\ UNCHANGED <<subscribed, schedVars, hubVars, laterVars>>
  \/ awaiting = <<"chat">> /\ ProviderToolCalls /\ awaiting' = <<>> /\ UNCHANGED <<subscribed, schedVars, hubVars, laterVars>>
  \/ awaiting = <<>> /\ ToolNotFound /\ UNCHANGED <<subscribed, awaiting, schedVars, hubVars, laterVars>>
  \/ ToolStart /\ UNCHANGED <<schedVars, hubVars, laterVars>>
  \/ pc = "tools" /\ awaiting # <<>> /\ Head(awaiting) = Head(toolCalls) /\ ToolCall /\ awaiting' = Tail(awaiting)
       /\ UNCHANGED <<subscribed, schedVars, hubVars, laterVars>>
  \/ Abandon /\ UNCHANGED <<schedVars, hubVars, laterVars>>
  \/ AbandonOnDelivery /\ UNCHANGED <<schedVars, hubVars, laterVars>>

\* One invocation without previous messages, for every prompt.
InitAwait == InitLoop /\ previousMessages = <<>>

SpecAwait == InitAwait /\ [][AwaitNext]_vars

\* ======================================================================
\*                       SCHEDULING RECONCILER
\* ======================================================================

Hashes == {"h1", "h2"}

\* The automation lists: 0..MaxAutomations files, two files may hold the same
\* contents and so the same hash; fileName is the position in the list.
AutomationLists ==
  UNION {[1..n -> Hashes] : n \in 0..MaxAutomations}

Signal(id, h, dead) == [id |-> id, automationHash |-> h, isDead |-> dead]

\* What the store may hold before: up to one signal row per hash, alive or dead.
PriorSignals ==
  {ss \in SUBSET {Signal(1, "h1", FALSE), Signal(1, "h1", TRUE),
                  Signal(2, "h2", FALSE), Signal(2, "h2", TRUE)} :
     \A a, b \in ss : a.id = b.id => a = b}

LogRow(type, h, log) == [type |-> type, automationHash |-> h, messageLog |-> log]

PriorLogs == {<<>>, <<LogRow("determine-signal", "h1", <<"list-scheduled-triggers">>)>>}

\* selectFrom('signals').where('automationHash', '=', h).where('isDead', '!=', true)
AliveSignals(h) == {s \in signals : s.automationHash = h /\ s.isDead # TRUE}

\* for (const automation of automations): the next position, or the end.
ForHead(i) == IF i <= Len(automations) THEN "examine" ELSE "done"

current == automations[idx]

SchedInit ==
  /\ spc = "start"
  /\ automations \in AutomationLists
  /\ idx = 0
  /\ signals \in PriorSignals
  /\ automationLogs \in PriorLogs
  /\ transcript = <<>>
  /\ llmRuns = <<>>
  /\ examined = <<>>
  /\ thrown = ""

\* rescheduleAutomations is called.
Reschedule ==
  /\ spc = "start"
  /\ idx' = 1
  /\ spc' = ForHead(1)
  /\ UNCHANGED <<automations, signals, automationLogs, transcript, llmRuns, examined, thrown>>

\* An examination that never looks at the store and always reschedules.
Examine_NoCheck ==
  /\ spc = "examine"
  /\ examined' = Append(examined, [idx |-> idx, hash |-> current, alive |-> AliveSignals(current) # {}])
  /\ spc' = "readMemory"
  /\ UNCHANGED <<automations, idx, signals, automationLogs, transcript, llmRuns, thrown>>

\* Lines 19-37: the "Examining" line, the query, and the branch on its row.
Examine ==
  /\ spc = "examine"
  /\ examined' = Append(examined, [idx |-> idx, hash |-> current, alive |-> AliveSignals(current) # {}])
  /\ IF AliveSignals(current) # {}
     THEN /\ idx' = idx + 1
          /\ spc' = ForHead(idx + 1)
     ELSE /\ idx' = idx
          /\ spc' = "readMemory"
  /\ UNCHANGED <<automations, signals, automationLogs, transcript, llmRuns, thrown>>

\* Lines 45-58: the memory file is read, then the conversation is opened; a
\* failed read rejects runSchedulerForAutomation and with it rescheduleAutomations.
ReadMemory ==
  /\ spc = "readMemory"
  /\ \E ok \in BOOLEAN :
       IF ok
       THEN /\ spc' = "converse"
            /\ llmRuns' = Append(llmRuns, [idx |-> idx, hash |-> current])
            /\ transcript' = <<>>
            /\ thrown' = thrown
       ELSE /\ spc' = "failed"
            /\ thrown' = "readFile"
            /\ UNCHANGED <<llmRuns, transcript>>
  /\ UNCHANGED <<automations, idx, signals, automationLogs, examined>>

\* The id the store gives the next signal row: one past the largest so far.
NextSignalId ==
  IF signals = {} THEN 1
  ELSE 1 + (CHOOSE m \in {s.id : s \in signals} : \A s \in signals : s.id <= m)

\* What a tool of the scheduler server, bound to the automation's hash, does
\* to the signals table.
SchedulerToolEffect(tool, h) ==
  CASE tool = "create-cron-trigger" ->
         signals \cup {Signal(NextSignalId, h, FALSE)}
    [] tool = "cancel-all-scheduled-triggers" ->
         {IF s.automationHash = h THEN Signal(s.id, h, TRUE) ELSE s : s \in signals}
    [] tool = "list-scheduled-triggers" -> signals

SchedulerTools == {"create-cron-trigger", "cancel-all-scheduled-triggers", "list-scheduled-triggers"}

\* The tool calls and provider timeouts so far in this reconciliation's conversations.
SchedulerCallsMade ==
  Len(transcript) +
  SeqSum([k \in 1..Len(automationLogs) |->
            IF k > Len(automationLogs) - (Len(llmRuns) - 1) THEN Len(automationLogs[k].messageLog) ELSE 0])

\* A job that writes a row for every message as it arrives.
SchedulerToolCall_LogsEachMessage ==
  /\ spc = "converse"
  /\ SchedulerCallsMade < MaxSchedulerCalls
  /\ \E tool \in SchedulerTools :
       /\ signals' = SchedulerToolEffect(tool, current)
       /\ transcript' = Append(transcript, tool)
       /\ automationLogs' = Append(automationLogs, LogRow("determine-signal", current, <<tool>>))
  /\ UNCHANGED <<spc, automations, idx, llmRuns, examined, thrown>>

\* The scheduling model calls a tool of createDefaultSchedulerTools.
SchedulerToolCall ==
  /\ spc = "converse"
  /\ SchedulerCallsMade < MaxSchedulerCalls
  /\ \E tool \in SchedulerTools :
       /\ signals' = SchedulerToolEffect(tool, current)
       /\ transcript' = Append(transcript, tool)
  /\ UNCHANGED <<spc, automations, idx, automationLogs, llmRuns, examined, thrown>>

\* A provider request of the conversation times out: the tool loop emits its
\* synthetic assistant message and goes on (ollama.ts lines 261-270).
SchedulerProviderTimeout ==
  /\ spc = "converse"
  /\ SchedulerCallsMade < MaxSchedulerCalls
  /\ transcript' = Append(transcript, "apology")
  /\ UNCHANGED <<spc, automations, idx, signals, automationLogs, llmRuns, examined, thrown>>

\* lastValueFrom(...pipe(toArray())): the stream completes and the array is
\* returned, or the stream errors (the provider error the tool loop rethrows,
\* ollama.ts lines 271-275) and the await throws.
ConversationEnds ==
  /\ spc = "converse"
  /\ \E ok \in BOOLEAN :
       /\ spc' = IF ok THEN "insertLog" ELSE "failed"
       /\ thrown' = IF ok THEN thrown ELSE "provider"
  /\ UNCHANGED <<automations, idx, signals, automationLogs, transcript, llmRuns, examined>>

\* Lines 60-68: the determine-signal row; a failed insert rejects.
InsertLog ==
  /\ spc = "insertLog"
  /\ \E ok \in BOOLEAN :
       IF ok
       THEN /\ automationLogs' = Append(automationLogs, LogRow("determine-signal", current, transcript))
            /\ idx' = idx + 1
            /\ spc' = ForHead(idx + 1)
            /\ thrown' = thrown
       ELSE /\ spc' = "failed"
            /\ thrown' = "insert"
            /\ UNCHANGED <<automationLogs, idx>>
  /\ UNCHANGED <<automations, signals, transcript, llmRuns, examined>>

InitSched == SchedInit /\ LoopIdle /\ HubIdle /\ LaterIdle

SchedNext ==
  \/ Reschedule /\ UNCHANGED <<loopVars, hubVars, laterVars>>
  \/ Examine /\ UNCHANGED <<loopVars, hubVars, laterVars>>
  \/ ReadMemory /\ UNCHANGED <<loopVars, hubVars, laterVars>>
  \/ SchedulerToolCall /\ UNCHANGED <<loopVars, hubVars, laterVars>>
  \/ SchedulerProviderTimeout /\ UNCHANGED <<loopVars, hubVars, laterVars>>
  \/ ConversationEnds /\ UNCHANGED <<loopVars, hubVars, laterVars>>
  \/ InsertLog /\ UNCHANGED <<loopVars, hubVars, laterVars>>

\* One call of rescheduleAutomations, for every automation list and store.
SpecSched == InitSched /\ [][SchedNext]_vars

\* ======================================================================
\*        RECONCILER UNDER OVERLAP: several calls of rescheduleAutomations
\* ======================================================================

\* One call of rescheduleAutomations: its list, its position in the for loop
\* and where it stands there.
Pass(list) ==
  [automations |-> list,
   idx |-> 1,
   pc |-> IF 1 <= Len(list) THEN "examine" ELSE "done",
   transcript |-> <<>>,
   calls |-> 0]

\* The automation pass p is at.
PassHash(p) == passes[p].automations[passes[p].idx]

\* The pass moves to the next automation of its list.
PassAdvance(q) ==
  [q EXCEPT !.idx = @ + 1,
            !.pc = IF q.idx + 1 <= Len(q.automations) THEN "examine" ELSE "done",
            !.transcript = <<>>]

\* The tool calls made so far by the passes 1..n.
RECURSIVE PassCalls(_)
PassCalls(n) == IF n = 0 THEN 0 ELSE PassCalls(n - 1) + passes[n].calls

PassInit ==
  /\ passes = <<>>
  /\ signals \in PriorSignals
  /\ automationLogs = <<>>
  /\ spc = "start"
  /\ automations = <<>>
  /\ idx = 0
  /\ transcript = <<>>
  /\ llmRuns = <<>>
  /\ examined = <<>>
  /\ thrown = ""

\* rescheduleAutomations is called; nothing makes the call wait for an
\* earlier one.
PassStart ==
  /\ Len(passes) < MaxPasses
  /\ \E list \in AutomationLists : passes' = Append(passes, Pass(list))
  /\ UNCHANGED <<signals, automationLogs>>

\* A reconciler that schedules every automation it meets, without the query.
PassExamine_Always(p) ==
  /\ passes[p].pc = "examine"
  /\ passes' = [passes EXCEPT ![p].pc = "converse"]
  /\ UNCHANGED <<signals, automationLogs>>

\* Lines 19-37 for pass p: the query and the branch on its row.
PassExamine(p) ==
  /\ passes[p].pc = "examine"
  /\ passes' = [passes EXCEPT ![p] = IF AliveSignals(PassHash(p)) # {}
                                     THEN PassAdvance(@)
                                     ELSE [@ EXCEPT !.pc = "converse"]]
  /\ UNCHANGED <<signals, automationLogs>>

\* The scheduling model of pass p's job calls a tool bound to the job's hash.
PassToolCall(p) ==
  /\ passes[p].pc = "converse"
  /\ PassCalls(Len(passes)) < MaxSchedulerCalls
  /\ \E tool \in SchedulerTools :
       /\ signals' = SchedulerToolEffect(tool, PassHash(p))
       /\ passes' = [passes EXCEPT ![p].transcript = Append(@, tool), ![p].calls = @ + 1]
  /\ UNCHANGED automationLogs

\* Lines 45-58 for pass p: the conversation is drained, or it throws (as the
\* read of the memory file before it may) and the pass is rejected.
PassConversationEnds(p) ==
  /\ passes[p].pc = "converse"
  /\ \E ok \in BOOLEAN :
       passes' = [passes EXCEPT ![p].pc = IF ok THEN "insertLog" ELSE "failed"]
  /\ UNCHANGED <<signals, automationLogs>>

\* Lines 60-68 for pass p: the determine-signal row is written and the for
\* loop goes on.
PassInsertLog(p) ==
  /\ passes[p].pc = "insertLog"
  /\ automationLogs' = Append(automationLogs, LogRow("determine-signal", PassHash(p), passes[p].transcript))
  /\ passes' = [passes EXCEPT ![p] = PassAdvance(@)]
  /\ UNCHANGED signals

passRest == <<loopVars, hubVars, apiVars, serveVars, evalVars, fireVars, orderVars, configVars, spc, automations, idx, transcript, llmRuns, examined, thrown>>

InitPasses == PassInit /\ LoopIdle /\ HubIdle /\ ApiIdle /\ ServeIdle /\ EvalIdle /\ FireIdle /\ OrderIdle /\ ConfigIdle

PassNext ==
  \/ PassStart /\ UNCHANGED passRest
  \/ \E p \in 1..Len(passes) : PassExamine(p) /\ UNCHANGED passRest
  \/ \E p \in 1..Len(passes) : PassToolCall(p) /\ UNCHANGED passRest
  \/ \E p \in 1..Len(passes) : PassConversationEnds(p) /\ UNCHANGED passRest
  \/ \E p \in 1..Len(passes) : PassInsertLog(p) /\ UNCHANGED passRest

\* The reconciler called up to MaxPasses times on one runtime, a call not
\* waiting for the one before it.
SpecPasses == InitPasses /\ [][PassNext]_vars

\* rescheduleAutomations is called again over the list of the first call, once
\* the call before it has returned or been rejected.
PassStartInARow ==
  /\ Len(passes) < MaxPasses
  /\ \A p \in 1..Len(passes) : passes[p].pc \in {"done", "failed"}
  /\ \E list \in AutomationLists :
       /\ passes # <<>> => list = passes[1].automations
       /\ passes' = Append(passes, Pass(list))
  /\ UNCHANGED <<signals, automationLogs>>

\* The tool calls the scheduling conversations of the calls in a row make in all.
MaxCallsInARow == 1

InARowNext ==
  \/ PassStartInARow /\ UNCHANGED passRest
  \/ \E p \in 1..Len(passes) : PassExamine(p) /\ UNCHANGED passRest
  \/ \E p \in 1..Len(passes) :
       PassCalls(Len(passes)) < MaxCallsInARow /\ PassToolCall(p) /\ UNCHANGED passRest
  \/ \E p \in 1..Len(passes) : PassConversationEnds(p) /\ UNCHANGED passRest
  \/ \E p \in 1..Len(passes) : PassInsertLog(p) /\ UNCHANGED passRest

\* The reconciler called up to MaxPasses times in a row over one list.
SpecInARow == InitPasses /\ [][InARowNext]_vars

\* ======================================================================
\*                  HUB CLIENT: LiveHomeAssistantApi.callService
\* ======================================================================

Domains == {"light", "switch"}

\* An entity id `${domain}.${object}`, as its two parts.
EntityId(d, o) == <<d, o>>

EntityIds == {EntityId("light", "kitchen"), EntityId("light", "living_room"), EntityId("switch", "porch")}

\* The part of an entity id before the dot.
DomainPrefix(id) == id[1]

\* target.entity_id: one id, or an array of 0..MaxEntityIds ids.
Targets ==
  {[isArray |-> FALSE, ids |-> <<id>>] : id \in EntityIds} \cup
  {[isArray |-> TRUE, ids |-> a] : a \in UNION {[1..n -> EntityIds] : n \in 0..MaxEntityIds}}

\* The options of a call: light.turn_on with service_data and
\* return_response, or switch.turn_off with neither, on any target.
ServiceCalls ==
  {[domain |-> d, target |-> t,
    service |-> IF d = "light" THEN "turn_on" ELSE "turn_off",
    service_data |-> IF d = "light" THEN "beige" ELSE "undefined",
    return_response |-> IF d = "light" THEN "true" ELSE "undefined"] :
     d \in Domains, t \in Targets}

\* The call_service message built from the options.
CallServiceMessage(opts) ==
  [type |-> "call_service", domain |-> opts.domain, service |-> opts.service,
   service_data |-> opts.service_data, target |-> opts.target,
   return_response |-> opts.return_response]

\* The positions of the target's ids whose domain prefix is not the domain.
Mismatches(opts) ==
  {i \in 1..Len(opts.target.ids) : DomainPrefix(opts.target.ids[i]) # opts.domain}

FirstMismatch(opts) == CHOOSE i \in Mismatches(opts) : \A j \in Mismatches(opts) : i <= j

\* `Entity ID ${id} doesn't match domain ${domain}`
MismatchError(id, d) == [error |-> "doesn't match domain", id |-> id, domain |-> d]

NoError == [error |-> "", id |-> <<>>, domain |-> ""]

Settled(opts, how, value, err) == [opts |-> opts, how |-> how, value |-> value, err |-> err]

\* A test mode that checks the first entity id only.
TestModeResult_FirstOnly(opts) ==
  IF opts.target.ids # <<>> /\ DomainPrefix(opts.target.ids[1]) # opts.domain
  THEN Settled(opts, "rejected", "", MismatchError(opts.target.ids[1], opts.domain))
  ELSE Settled(opts, "resolved", "null", NoError)

\* Test mode: every entity id is validated against the domain; the first one
\* that does not match rejects the call, otherwise the call resolves to null.
TestModeResult(opts) ==
  IF Mismatches(opts) # {}
  THEN Settled(opts, "rejected", "", MismatchError(opts.target.ids[FirstMismatch(opts)], opts.domain))
  ELSE Settled(opts, "resolved", "null", NoError)

\* A test mode that validates and then forwards the valid calls to the hub.
CallServiceTest_Forwards ==
  /\ testMode
  /\ Len(settled) < MaxHubCalls
  /\ \E opts \in ServiceCalls :
       /\ settled' = Append(settled, TestModeResult(opts))
       /\ sent' = IF Mismatches(opts) = {} THEN Append(sent, CallServiceMessage(opts)) ELSE sent
  /\ UNCHANGED testMode

\* callService with testMode on: nothing goes to the connection.
CallServiceTest ==
  /\ testMode
  /\ Len(settled) < MaxHubCalls
  /\ \E opts \in ServiceCalls :
       settled' = Append(settled, TestModeResult(opts))
  /\ UNCHANGED <<testMode, sent>>

\* A live call that leaves return_response out of the message.
CallServiceLive_NoReturnResponse ==
  /\ ~testMode
  /\ Len(settled) < MaxHubCalls
  /\ \E opts \in ServiceCalls :
       /\ sent' = Append(sent, [CallServiceMessage(opts) EXCEPT !.return_response = "undefined"])
       /\ settled' = Append(settled, Settled(opts, "resolved", "response", NoError))
  /\ UNCHANGED testMode

\* callService with testMode off: one call_service message through
\* connection.sendMessagePromise, whose response is the call's.
CallServiceLive ==
  /\ ~testMode
  /\ Len(settled) < MaxHubCalls
  /\ \E opts \in ServiceCalls :
       /\ sent' = Append(sent, CallServiceMessage(opts))
       /\ settled' = Append(settled, Settled(opts, "resolved", "response", NoError))
  /\ UNCHANGED testMode

InitHub ==
  /\ testMode \in BOOLEAN
  /\ sent = <<>>
  /\ settled = <<>>
  /\ LoopIdle /\ SchedIdle /\ LaterIdle

HubNext ==
  \/ CallServiceTest /\ UNCHANGED <<loopVars, schedVars, laterVars>>
  \/ CallServiceLive /\ UNCHANGED <<loopVars, schedVars, laterVars>>

\* One api instance, in test mode or not, and the calls made on it.
SpecHub == InitHub /\ [][HubNext]_vars

\* ======================================================================
\*        PROMPT REQUESTS: ServerWebsocketApiImpl.handlePromptRequest
\* ======================================================================

\* previousConversationId, and serverId, when undefined.
NoId == 0

\* An automationLogs row; `by` is the request whose insert created it (0: an
\* earlier one, over before these).
Row(type, log, by) == [type |-> type, messageLog |-> log, by |-> by]

\* The k-th message of request r's conversation, reduced to {content, role}.
Msg(r, k) == <<r, k>>

\* The table holds the manual row of an earlier conversation.
PriorRows == <<Row("manual", <<Msg(0, 1)>>, 0)>>

RowExists(id) == id \in 1..Len(logs)

\* The closure of one handlePromptRequest call (lines 161-175).
Req(prevId) ==
  [previousConversationId |-> prevId,
   serverId |-> prevId,
   phase |-> IF prevId = NoId THEN "stream" ELSE "select",
   previousMessages |-> <<>>,
   arrived |-> 0,
   inserting |-> <<>>,
   newMsgs |-> <<>>,
   sourceDone |-> FALSE,
   subscribers |-> {"log", "client"}]

\* [...previousMessages, ...filteredNewMsgs]
FullMessageLog(q) == q.previousMessages \o [i \in 1..Len(q.newMsgs) |-> q.newMsgs[i].msg]

\* The messages that have come out of the conversations of requests 1..n.
RECURSIVE Arrived(_)
Arrived(n) == IF n = 0 THEN 0 ELSE Arrived(n - 1) + reqs[n].arrived

ApiInit ==
  /\ logs = PriorRows
  /\ reqs = <<>>

\* A prompt request arrives, new or continuing the conversation of some id.
HandlePromptRequest ==
  /\ Len(reqs) < MaxRequests
  /\ \E prevId \in 0..(Len(logs) + 1) : reqs' = Append(reqs, Req(prevId))
  /\ UNCHANGED logs

\* Lines 162-183: the previous conversation's row is read, `[]` when there is none.
SelectDone(r) ==
  /\ reqs[r].phase = "select"
  /\ reqs' = [reqs EXCEPT ![r].phase = "stream",
                          ![r].previousMessages =
                             IF RowExists(reqs[r].previousConversationId)
                             THEN logs[reqs[r].previousConversationId].messageLog ELSE <<>>]
  /\ UNCHANGED logs

\* Lines 198-223: a message comes out of the conversation; with no serverId
\* yet an insert is issued for it, otherwise it goes out with the serverId.
MessageArrives(r) ==
  /\ reqs[r].phase = "stream"
  /\ reqs[r].subscribers # {}
  /\ ~reqs[r].sourceDone
  /\ Arrived(Len(reqs)) < MaxMessages
  /\ LET m == Msg(r, reqs[r].arrived + 1)
     IN reqs' = IF reqs[r].serverId = NoId
                THEN [reqs EXCEPT ![r].arrived = @ + 1, ![r].inserting = Append(@, m)]
                ELSE [reqs EXCEPT ![r].arrived = @ + 1,
                                  ![r].newMsgs = Append(@, [msg |-> m, serverId |-> reqs[r].serverId])]
  /\ UNCHANGED logs

\* Lines 202-219: an insert completes: the row exists, serverId is its id, and
\* the message goes out with that id.
InsertDone(r) ==
  /\ reqs[r].inserting # <<>>
  /\ LET m == Head(reqs[r].inserting)
         id == Len(logs) + 1
     IN /\ logs' = Append(logs, Row("manual", <<m>>, r))
        /\ reqs' = [reqs EXCEPT ![r].serverId = id,
                                ![r].inserting = Tail(@),
                                ![r].newMsgs = IF reqs[r].phase = "stream"
                                               THEN Append(@, [msg |-> m, serverId |-> id]) ELSE @]

\* Line 249 and its caller: the client unsubscribes from the returned resp.
\* share() unsubscribes from the conversation only when its last subscriber
\* has left, and the subscription of line 247 is never released.
ClientAbandons(r) ==
  /\ reqs[r].phase \in {"select", "stream"}
  /\ "client" \in reqs[r].subscribers
  /\ reqs' = [reqs EXCEPT ![r].subscribers = @ \ {"client"}]
  /\ UNCHANGED logs

\* The conversation completes.
SourceCompletes(r) ==
  /\ reqs[r].phase = "stream"
  /\ ~reqs[r].sourceDone
  /\ reqs[r].arrived >= 1
  /\ reqs' = [reqs EXCEPT ![r].sourceDone = TRUE]
  /\ UNCHANGED logs

\* The conversation errors: toArray never emits and nothing is updated.
SourceErrors(r) ==
  /\ reqs[r].phase = "stream"
  /\ ~reqs[r].sourceDone
  /\ reqs' = [reqs EXCEPT ![r].phase = "error"]
  /\ UNCHANGED logs

\* The update without its `where`: every row is set.
Persist_EveryRow(r) ==
  /\ reqs[r].phase = "stream"
  /\ reqs[r].sourceDone
  /\ reqs[r].inserting = <<>>
  /\ logs' = [i \in 1..Len(logs) |-> Row("manual", FullMessageLog(reqs[r]), logs[i].by)]
  /\ reqs' = [reqs EXCEPT ![r].phase = "done"]

\* Lines 227-247: resp has completed; the row whose id is serverId is set to
\* the full message log.
Persist(r) ==
  /\ reqs[r].phase = "stream"
  /\ reqs[r].sourceDone
  /\ reqs[r].inserting = <<>>
  /\ logs' = IF RowExists(reqs[r].serverId)
             THEN [logs EXCEPT ![reqs[r].serverId] = Row("manual", FullMessageLog(reqs[r]), @.by)]
             ELSE logs
  /\ reqs' = [reqs EXCEPT ![r].phase = "done"]

apiRest == <<loopVars, schedVars, hubVars, passVars, serveVars, evalVars, fireVars, orderVars, configVars>>

InitApi == ApiInit /\ LoopIdle /\ SchedIdle /\ HubIdle /\ PassIdle /\ ServeIdle /\ EvalIdle /\ FireIdle /\ OrderIdle /\ ConfigIdle

ApiNext ==
  \/ HandlePromptRequest /\ UNCHANGED apiRest
  \/ \E r \in 1..Len(reqs) : SelectDone(r) /\ UNCHANGED apiRest
  \/ \E r \in 1..Len(reqs) : MessageArrives(r) /\ UNCHANGED apiRest
  \/ \E r \in 1..Len(reqs) : InsertDone(r) /\ UNCHANGED apiRest
  \/ \E r \in 1..Len(reqs) : ClientAbandons(r) /\ UNCHANGED apiRest
  \/ \E r \in 1..Len(reqs) : SourceCompletes(r) /\ UNCHANGED apiRest
  \/ \E r \in 1..Len(reqs) : SourceErrors(r) /\ UNCHANGED apiRest
  \/ \E r \in 1..Len(reqs) : Persist(r) /\ UNCHANGED apiRest

\* One api instance and the prompt requests made to it, overlapping or not.
SpecApi == InitApi /\ [][ApiNext]_vars

\* ======================================================================
\*          SERVE COMMAND: serveCommand, initializeRuntimeAndStart,
\*                              flushAndExit
\* ======================================================================

\* A start-up: the mergeMap callback has called initializeRuntimeAndStart,
\* which awaits the config, the hub connection, the runtime and the logger.
\* `rpc` is the subscription handleWebsocketRpc makes for the start-up's api
\* instance, `restart` the one to its runtime's shouldRestart.
StartUp == [pc |-> "creating", started |-> FALSE, nth |-> 0, rpc |-> FALSE, restart |-> FALSE]

\* How many runtimes have had their start() called.
StartsSoFar == Cardinality({k \in 1..Len(runtimes) : runtimes[k].nth > 0})

\* The runtimes that are started: subscribed to their triggers and to the
\* notebook.
Started == {k \in 1..Len(runtimes) : runtimes[k].started}

\* currentSub.current = subscription: the SerialSubscription unsubscribes
\* the subscription it held, which stops that runtime.
SerialAssign(rs, k) ==
  [j \in 1..Len(rs) |->
     IF j = k THEN [rs[j] EXCEPT !.pc = "installed", !.restart = TRUE]
     ELSE IF j = currentSub THEN [rs[j] EXCEPT !.started = FALSE]
     ELSE rs[j]]

Running == shutdown.pc # "exited"

\* Line 337: serveCommand ends with startItUp.next, so the first start-up is
\* under way.
ServeInit ==
  /\ runtimes = <<StartUp>>
  /\ currentSub = 0
  /\ currentRuntime = 0
  /\ exiting = FALSE
  /\ shutdown = [pc |-> "idle", runtime |-> 0, timers |-> 0]
  /\ dbLog = <<>>
  /\ sigs = <<>>
  /\ rpcLog = <<>>

\* Lines 528-563: the awaits of start-up k are over and runtime.start() runs.
RuntimeStart(k) ==
  /\ Running
  /\ runtimes[k].pc = "creating"
  /\ runtimes' = [runtimes EXCEPT ![k] = [@ EXCEPT !.pc = "returned", !.started = TRUE,
                                                   !.nth = StartsSoFar + 1, !.rpc = TRUE]]
  /\ UNCHANGED <<currentSub, currentRuntime, exiting, shutdown, dbLog, sigs, rpcLog>>

\* Lines 265-278: the callback resumes with what start-up k returned and
\* subscribes to its shouldRestart; the callbacks resume in the order in which
\* their start-ups returned.
Install(k) ==
  /\ Running
  /\ runtimes[k].pc = "returned"
  /\ \A j \in 1..Len(runtimes) : runtimes[j].pc = "returned" => runtimes[k].nth <= runtimes[j].nth
  /\ runtimes' = SerialAssign(runtimes, k)
  /\ currentSub' = k
  /\ currentRuntime' = k
  /\ UNCHANGED <<exiting, shutdown, dbLog, sigs, rpcLog>>

\* Line 272: a runtime whose shouldRestart is subscribed emits it; mergeMap
\* runs the callback at once, whatever start-ups are under way.
ShouldRestart(k) ==
  /\ Running
  /\ runtimes[k].restart
  /\ runtimes[k].started
  /\ Len(runtimes) < MaxRuntimes
  /\ runtimes' = Append(runtimes, StartUp)
  /\ UNCHANGED <<currentSub, currentRuntime, exiting, shutdown, dbLog, sigs, rpcLog>>

\* A started runtime runs a job, which reads and writes runtime.db.
JobRuns(k) ==
  /\ Running
  /\ runtimes[k].started
  /\ Cardinality({n \in 1..Len(dbLog) : dbLog[n][1] = "job"}) < MaxJobs
  /\ dbLog' = Append(dbLog, <<"job", k>>)
  /\ UNCHANGED <<runtimes, currentSub, currentRuntime, exiting, shutdown, sigs, rpcLog>>

\* The runtimes that were installed and have been replaced since.
Replaced == {k \in 1..Len(runtimes) : runtimes[k].pc = "installed" /\ k # currentSub}

\* Line 560 and the route of lines 299-321: a websocket message is pushed to
\* websocketMessages and reaches the api instance of every subscription
\* handleWebsocketRpc has made on it.
WebsocketMessage ==
  /\ Running
  /\ Len(rpcLog) < MaxRpcMessages
  /\ rpcLog' = Append(rpcLog, [handlers |-> {k \in 1..Len(runtimes) : runtimes[k].rpc},
                                replaced |-> Replaced])
  /\ UNCHANGED <<runtimes, currentSub, currentRuntime, exiting, shutdown, dbLog, sigs>>

SignalNames == {"SIGINT", "SIGTERM", "SIGQUIT"}

\* A flushAndExit without the exiting flag.
FlushAndExit_NoFlag(runtime) ==
  /\ exiting' = TRUE
  /\ shutdown' = [shutdown EXCEPT !.pc = "checkpoint", !.runtime = runtime]
  /\ dbLog' = Append(dbLog, <<"checkpoint", runtime>>)
  /\ UNCHANGED <<runtimes, currentSub, currentRuntime, rpcLog>>

\* Lines 567-576: flushAndExit(runtime) returns at once when the process is
\* exiting already; otherwise it sets the flag and issues the checkpoint.
FlushAndExit(runtime) ==
  /\ IF exiting
     THEN UNCHANGED <<exiting, shutdown, dbLog>>
     ELSE /\ exiting' = TRUE
          /\ shutdown' = [shutdown EXCEPT !.pc = "checkpoint", !.runtime = runtime]
          /\ dbLog' = Append(dbLog, <<"checkpoint", runtime>>)
  /\ UNCHANGED <<runtimes, currentSub, currentRuntime, rpcLog>>

\* Lines 283-294: the handler of a signal, which calls flushAndExit if
\* currentRuntime is set and does nothing otherwise.
SignalArrives(sig) ==
  /\ Running
  /\ Len(sigs) < MaxSignals
  /\ sigs' = Append(sigs, [sig |-> sig, runtime |-> currentRuntime])
  /\ IF currentRuntime # 0
     THEN FlushAndExit(currentRuntime)
     ELSE UNCHANGED <<runtimes, currentSub, currentRuntime, exiting, shutdown, dbLog, rpcLog>>

\* Lines 576-579: the checkpoint is over and db.destroy() is issued, or the
\* checkpoint threw.
CheckpointDone ==
  /\ shutdown.pc = "checkpoint"
  /\ \E ok \in BOOLEAN :
       IF ok
       THEN /\ shutdown' = [shutdown EXCEPT !.pc = "destroy"]
            /\ dbLog' = Append(dbLog, <<"destroy", shutdown.runtime>>)
       ELSE /\ shutdown' = [shutdown EXCEPT !.pc = "timer", !.timers = @ + 1]
            /\ dbLog' = dbLog
  /\ UNCHANGED <<runtimes, currentSub, currentRuntime, exiting, sigs, rpcLog>>

\* Lines 579-587: the connection is destroyed and runtime.unsubscribe() runs,
\* or destroy threw; either way the exit timer is set.
DestroyDone ==
  /\ shutdown.pc = "destroy"
  /\ \E ok \in BOOLEAN :
       runtimes' = IF ok THEN [runtimes EXCEPT ![shutdown.runtime].started = FALSE] ELSE runtimes
  /\ shutdown' = [shutdown EXCEPT !.pc = "timer", !.timers = @ + 1]
  /\ UNCHANGED <<currentSub, currentRuntime, exiting, dbLog, sigs, rpcLog>>

\* Line 587: the timer fires and the process exits.
Exit ==
  /\ shutdown.pc = "timer"
  /\ shutdown' = [shutdown EXCEPT !.pc = "exited"]
  /\ UNCHANGED <<runtimes, currentSub, currentRuntime, exiting, dbLog, sigs, rpcLog>>

serveRest == <<loopVars, schedVars, hubVars, apiVars, passVars, evalVars, fireVars, orderVars, configVars>>

InitServe == ServeInit /\ LoopIdle /\ SchedIdle /\ HubIdle /\ ApiIdle /\ PassIdle /\ EvalIdle /\ FireIdle /\ OrderIdle /\ ConfigIdle

ServeNext ==
  \/ \E k \in 1..Len(runtimes) : RuntimeStart(k) /\ UNCHANGED serveRest
  \/ \E k \in 1..Len(runtimes) : Install(k) /\ UNCHANGED serveRest
  \/ \E k \in 1..Len(runtimes) : ShouldRestart(k) /\ UNCHANGED serveRest
  \/ \E k \in 1..Len(runtimes) : JobRuns(k) /\ UNCHANGED serveRest
  \/ \E sig \in SignalNames : SignalArrives(sig) /\ UNCHANGED serveRest
  \/ WebsocketMessage /\ UNCHANGED serveRest
  \/ CheckpointDone /\ UNCHANGED serveRest
  \/ DestroyDone /\ UNCHANGED serveRest
  \/ Exit /\ UNCHANGED serveRest

\* The serve command from its first start-up to the exit of the process.
SpecServe == InitServe /\ [][ServeNext]_vars

SignalsNext ==
  \/ \E k \in 1..Len(runtimes) : RuntimeStart(k) /\ UNCHANGED serveRest
  \/ \E k \in 1..Len(runtimes) : Install(k) /\ UNCHANGED serveRest
  \/ \E k \in 1..Len(runtimes) : ShouldRestart(k) /\ UNCHANGED serveRest
  \/ \E sig \in SignalNames : SignalArrives(sig) /\ UNCHANGED serveRest
  \/ CheckpointDone /\ UNCHANGED serveRest
  \/ DestroyDone /\ UNCHANGED serveRest
  \/ Exit /\ UNCHANGED serveRest

\* The serve command under signals: its start-ups, restarts and shutdown,
\* without the jobs and the websocket traffic of the served runtimes.
SpecSignals == InitServe /\ [][SignalsNext]_vars

\* What the event loop guarantees: a start-up's awaits settle, its callback
\* resumes, the awaits of flushAndExit settle and a timer that is set fires.
\* Signals, notebook changes, jobs and websocket messages come when they come.
FairServe ==
  /\ SpecServe
  /\ WF_vars(\E k \in 1..Len(runtimes) : RuntimeStart(k) /\ UNCHANGED serveRest)
  /\ WF_vars(\E k \in 1..Len(runtimes) : Install(k) /\ UNCHANGED serveRest)
  /\ WF_vars(CheckpointDone /\ UNCHANGED serveRest)
  /\ WF_vars(DestroyDone /\ UNCHANGED serveRest)
  /\ WF_vars(Exit /\ UNCHANGED serveRest)

\* ======================================================================
\*            EVALUATION HARNESS: runScenario and its graders
\* ======================================================================

\* asyncMap(graders, ..., 2): at most two graders run at a time.
GraderConcurrency == 2

\* What a grader may return: a failure grader's and a content grader's
\* results, and a judge's grade out of 5.
GradeResults ==
  {[score |-> 0, possible_score |-> 1],
   [score |-> 1, possible_score |-> 1],
   [score |-> 3, possible_score |-> 5]}

\* Map.prototype.set on a map kept as a sequence of entries in insertion order.
MapSet(map, k, v) ==
  IF \E n \in 1..Len(map) : map[n].k = k
  THEN [n \in 1..Len(map) |-> IF map[n].k = k THEN [k |-> k, v |-> v] ELSE map[n]]
  ELSE Append(map, [k |-> k, v |-> v])

\* Array.from(map.values())
MapValues(map) == [n \in 1..Len(map) |-> map[n].v]

\* gradeResults.reduce over score and over possible_score.
RECURSIVE SumScore(_)
SumScore(rs) == IF rs = <<>> THEN 0 ELSE Head(rs).score + SumScore(Tail(rs))

RECURSIVE SumPossible(_)
SumPossible(rs) == IF rs = <<>> THEN 0 ELSE Head(rs).possible_score + SumPossible(Tail(rs))

\* runScenario is called with n graders, each a function object of its own.
RunInit ==
  \E n \in 0..MaxGraders :
    run = [pc |-> "draining",
           graders |-> n,
           emitted |-> 0,
           messages |-> 0,
           started |-> {},
           given |-> [g \in 1..n |-> 0],
           returned |-> [g \in 1..n |-> NoResult],
           done |-> {},
           map |-> <<>>,
           result |-> [gradeResults |-> <<>>, messages |-> 0, finalScore |-> 0, finalScorePossible |-> 0]]

\* The conversation emits a message.
ScenarioMessage ==
  /\ run.pc = "draining"
  /\ run.emitted < MaxTranscript
  /\ run' = [run EXCEPT !.emitted = @ + 1]

\* Lines 741-743: the conversation completes and toArray hands over all of
\* its messages.
ScenarioCompletes ==
  /\ run.pc = "draining"
  /\ run' = [run EXCEPT !.pc = "grading", !.messages = run.emitted]

\* The conversation errors: firstValueFrom rejects and so does runScenario.
ScenarioErrors ==
  /\ run.pc = "draining"
  /\ run' = [run EXCEPT !.pc = "rejected"]

\* Starting a grader before the conversation is over, with what has arrived.
GraderStart_Early ==
  /\ run.pc \in {"draining", "grading"}
  /\ Cardinality(run.started) < run.graders
  /\ Cardinality(run.started \ run.done) < GraderConcurrency
  /\ LET g == Cardinality(run.started) + 1
     IN run' = [run EXCEPT !.started = @ \cup {g}, !.given[g] = run.emitted]

\* Lines 746-749: asyncMap calls the next grader with the messages, two at
\* most being in flight.
GraderStart ==
  /\ run.pc = "grading"
  /\ Cardinality(run.started) < run.graders
  /\ Cardinality(run.started \ run.done) < GraderConcurrency
  /\ LET g == Cardinality(run.started) + 1
     IN run' = [run EXCEPT !.started = @ \cup {g}, !.given[g] = run.messages]

\* A grader resolves and asyncMap sets its result under the grader.
GraderDone(g) ==
  /\ run.pc = "grading"
  /\ g \in run.started \ run.done
  /\ \E r \in GradeResults :
       run' = [run EXCEPT !.done = @ \cup {g},
                          !.returned[g] = r,
                          !.map = MapSet(@, g, r)]

\* A grader rejects (the judge's answer does not parse): asyncMap rejects and
\* so does runScenario.
GraderThrows(g) ==
  /\ run.pc = "grading"
  /\ g \in run.started \ run.done
  /\ run' = [run EXCEPT !.pc = "rejected"]

\* A reduce that adds the score to both sums.
ScenarioReturn_ScoreTwice ==
  /\ run.pc = "grading"
  /\ run.done = 1..run.graders
  /\ LET gradeResults == MapValues(run.map)
     IN run' = [run EXCEPT !.pc = "returned",
                           !.result = [gradeResults |-> gradeResults,
                                       messages |-> run.messages,
                                       finalScore |-> SumScore(gradeResults),
                                       finalScorePossible |-> SumScore(gradeResults)]]

\* Lines 746-773: all graders have resolved; the results are summed and the
\* ScenarioResult is returned.
ScenarioReturn ==
  /\ run.pc = "grading"
  /\ run.done = 1..run.graders
  /\ LET gradeResults == MapValues(run.map)
     IN run' = [run EXCEPT !.pc = "returned",
                           !.result = [gradeResults |-> gradeResults,
                                       messages |-> run.messages,
                                       finalScore |-> SumScore(gradeResults),
                                       finalScorePossible |-> SumPossible(gradeResults)]]

evalRest == <<loopVars, schedVars, hubVars, apiVars, passVars, serveVars, fireVars, orderVars, configVars>>

InitEval == RunInit /\ GradingIdle /\ LoopIdle /\ SchedIdle /\ HubIdle /\ ApiIdle /\ PassIdle /\ ServeIdle /\ FireIdle /\ OrderIdle /\ ConfigIdle

EvalNext ==
  \/ ScenarioMessage /\ UNCHANGED <<grading, evalRest>>
  \/ ScenarioCompletes /\ UNCHANGED <<grading, evalRest>>
  \/ ScenarioErrors /\ UNCHANGED <<grading, evalRest>>
  \/ GraderStart /\ UNCHANGED <<grading, evalRest>>
  \/ \E g \in 1..run.graders : GraderDone(g) /\ UNCHANGED <<grading, evalRest>>
  \/ \E g \in 1..run.graders : GraderThrows(g) /\ UNCHANGED <<grading, evalRest>>
  \/ ScenarioReturn /\ UNCHANGED <<grading, evalRest>>

\* One call of runScenario.
SpecEval == InitEval /\ [][EvalNext]_vars

\* The text of a message, as messagesToString gives it: a string over a small
\* alphabet.
Texts == {<<>>, <<"a">>, <<"b">>, <<"a", "b">>}

Needles == {<<"a">>, <<"b">>, <<"a", "b">>}

\* String.prototype.includes
Includes(text, needle) ==
  \E i \in 1..(Len(text) - Len(needle) + 1) : SubSeq(text, i, i + Len(needle) - 1) = needle

\* The needles of `content`, by position, that occur in `text`.
Found(content, text) == {n \in 1..Len(content) : Includes(text, content[n])}

\* gradeViaSearchForContent(...content) is made and called with a transcript.
GradingInit ==
  /\ grading \in [pc : {"call"},
                   content : UNION {[1..n -> Needles] : n \in 0..MaxNeedles},
                   messages : UNION {[1..n -> Texts] : n \in 1..MaxTranscript},
                   result : {NoResult}]

\* Lines 804-824: the grader looks at messages[messages.length - 1].
GradeViaSearchForContent ==
  /\ grading.pc = "call"
  /\ LET lastMsg == grading.messages[Len(grading.messages)]
     IN grading' = [grading EXCEPT !.pc = "done",
                                   !.result = [score |-> Cardinality(Found(grading.content, lastMsg)),
                                               possible_score |-> Len(grading.content)]]

InitGrading == GradingInit /\ RunIdle /\ LoopIdle /\ SchedIdle /\ HubIdle /\ ApiIdle /\ PassIdle /\ ServeIdle /\ FireIdle /\ OrderIdle /\ ConfigIdle

GradingNext ==
  \/ GradeViaSearchForContent /\ UNCHANGED <<run, evalRest>>

\* One content grader applied to one transcript, for every choice of needles
\* and messages.
SpecGrading == InitGrading /\ [][GradingNext]_vars

\* What the judge model may answer: text that is not JSON, or a JSON object
\* whose grade is whatever number the model wrote, asked for 1 to 5 or not.
JudgeReplies ==
  {[json |-> FALSE, grade |-> 0]} \cup [json : {TRUE}, grade : -1..7]

\* gradeContentViaPrompt(goal) is made and called with a transcript; the judge
\* conversation of lines 846-848 has given its last message.
JudgeInit ==
  /\ grading \in [pc : {"judge"},
                   messages : UNION {[1..n -> Texts] : n \in 1..MaxTranscript},
                   reply : JudgeReplies,
                   result : {NoResult}]

\* Lines 850-866: JSON.parse of the reply, which throws on text that is not
\* JSON and is rethrown, or the grade as the score out of 5.
GradeContentViaPrompt ==
  /\ grading.pc = "judge"
  /\ grading' = IF grading.reply.json
                 THEN [grading EXCEPT !.pc = "done",
                                      !.result = [score |-> grading.reply.grade, possible_score |-> 5]]
                 ELSE [grading EXCEPT !.pc = "thrown"]

InitJudge == JudgeInit /\ RunIdle /\ LoopIdle /\ SchedIdle /\ HubIdle /\ ApiIdle /\ PassIdle /\ ServeIdle /\ FireIdle /\ OrderIdle /\ ConfigIdle

JudgeNext ==
  \/ GradeContentViaPrompt /\ UNCHANGED <<run, evalRest>>

\* One judge grader applied to one transcript, for every reply of the judge.
SpecJudge == InitJudge /\ [][JudgeNext]_vars

\* ======================================================================
\*      SIGNAL FIRING: trigger engine, execution jobs, crash and restart
\* ======================================================================

\* The kinds of timed signals: `time` and a non-repeating `offset` fire once,
\* a repeating `offset` and `cron` fire again.
SignalKinds == {"time", "offset", "offset-repeat", "cron"}

OneShot(kind) == kind \in {"time", "offset"}

\* The alive signals of the store, by id.
Alive == {s \in 1..Len(store.signals) : ~store.signals[s].isDead}

\* The execute-signal rows written for signal s.
ExecuteLogs(s) == {n \in 1..Len(store.logs) : store.logs[n].signaledBy = s}

\* All firings so far.
RECURSIVE Firings(_)
Firings(n) == IF n = 0 THEN 0 ELSE Firings(n - 1) + fires[n]

\* Boot: the store holds two alive signals and the engine has armed their
\* timers.
FireInit ==
  /\ \E k1, k2 \in SignalKinds :
       store = [signals |-> <<[kind |-> k1, isDead |-> FALSE], [kind |-> k2, isDead |-> FALSE]>>,
                logs |-> <<>>]
  /\ proc = [up |-> TRUE, armed |-> {1, 2}, jobs |-> {}, lost |-> {}, crashes |-> 0]
  /\ fires = <<0, 0>>

\* A firing that writes nothing to the store at the time the timer fires.
TimerFires_Deferred(s) ==
  /\ proc.up
  /\ s \in proc.armed
  /\ Firings(Len(fires)) < MaxFirings
  /\ fires' = [fires EXCEPT ![s] = @ + 1]
  /\ proc' = [proc EXCEPT !.armed = IF OneShot(store.signals[s].kind) THEN @ \ {s} ELSE @,
                           !.jobs = @ \cup {s}]
  /\ UNCHANGED store

\* The timer of signal s fires (for a missed one-shot: at once after boot).
\* In one transaction the execute-signal row is inserted and a one-shot is
\* killed; the event goes to the runtime, which opens the conversation.
TimerFires(s) ==
  /\ proc.up
  /\ s \in proc.armed
  /\ Firings(Len(fires)) < MaxFirings
  /\ fires' = [fires EXCEPT ![s] = @ + 1]
  /\ store' = [store EXCEPT !.logs = Append(@, [type |-> "execute-signal", signaledBy |-> s]),
                             !.signals[s].isDead = OneShot(store.signals[s].kind)]
  /\ proc' = [proc EXCEPT !.armed = IF OneShot(store.signals[s].kind) THEN @ \ {s} ELSE @,
                           !.jobs = @ \cup {s}]

\* The execution job of signal s ends.
ExecutionEnds(s) ==
  /\ proc.up
  /\ s \in proc.jobs
  /\ proc' = [proc EXCEPT !.jobs = @ \ {s}]
  /\ UNCHANGED <<store, fires>>

\* The process dies: its timers are gone and its jobs in flight are lost, the
\* store stays.
Crash ==
  /\ proc.up
  /\ proc.crashes < MaxCrashes
  /\ proc' = [up |-> FALSE, armed |-> {}, jobs |-> {}, lost |-> proc.lost \cup proc.jobs,
              crashes |-> proc.crashes + 1]
  /\ UNCHANGED <<store, fires>>

\* Boot after a crash: timers are reconstituted from all alive signals.
Restart ==
  /\ ~proc.up
  /\ proc.crashes > 0
  /\ proc' = [proc EXCEPT !.up = TRUE, !.armed = Alive]
  /\ UNCHANGED <<store, fires>>

fireRest == <<loopVars, schedVars, hubVars, apiVars, passVars, serveVars, evalVars, orderVars, configVars>>

InitFire == FireInit /\ LoopIdle /\ SchedIdle /\ HubIdle /\ ApiIdle /\ PassIdle /\ ServeIdle /\ EvalIdle /\ OrderIdle /\ ConfigIdle

FireNext ==
  \/ \E s \in 1..Len(fires) : TimerFires(s) /\ UNCHANGED fireRest
  \/ \E s \in 1..Len(fires) : ExecutionEnds(s) /\ UNCHANGED fireRest
  \/ Crash /\ UNCHANGED fireRest
  \/ Restart /\ UNCHANGED fireRest

\* Two stored signals firing, with crashes and restarts of the engine.
SpecFire == InitFire /\ [][FireNext]_vars

\* ======================================================================
\*        JOB ORDERING: scheduling and execution jobs of one hash
\* ======================================================================

\* The per-automation queue depth.
QueueDepth == 16

\* What the runtime keeps for one hash.
HashJobs ==
  [scheduling |-> "none", armed |-> FALSE, queue |-> <<>>, inFlight |-> 0,
   emitted |-> <<>>, executed |-> <<>>, early |-> FALSE]

\* The events emitted so far, over the hashes 1..n.
RECURSIVE EventsEmitted(_)
EventsEmitted(n) == IF n = 0 THEN 0 ELSE EventsEmitted(n - 1) + Len(jobq[n].emitted)

\* An event joins the queue of its hash; a saturated queue keeps only the
\* latest.
Enqueue(queue, ev) ==
  IF Len(queue) < QueueDepth THEN Append(queue, ev)
  ELSE [queue EXCEPT ![Len(queue)] = ev]

\* Boot with two automations that have no signals yet.
OrderInit == jobq = <<HashJobs, HashJobs>>

\* Reconcile: a scheduling job is enqueued for a hash without alive signals.
EnqueueScheduling(h) ==
  /\ jobq[h].scheduling = "none"
  /\ ~jobq[h].armed
  /\ jobq' = [jobq EXCEPT ![h].scheduling = "queued"]

\* A worker takes the scheduling job.
SchedulingStarts(h) ==
  /\ jobq[h].scheduling = "queued"
  /\ jobq' = [jobq EXCEPT ![h].scheduling = "running"]

\* The scheduling conversation creates a trigger: the engine arms it at once.
SchedulingCreatesTrigger(h) ==
  /\ jobq[h].scheduling = "running"
  /\ ~jobq[h].armed
  /\ jobq' = [jobq EXCEPT ![h].armed = TRUE]

\* The scheduling job has drained its conversation and written its row.
SchedulingCompletes(h) ==
  /\ jobq[h].scheduling = "running"
  /\ jobq' = [jobq EXCEPT ![h].scheduling = "done"]

\* The trigger engine emits an event for the hash.
EmitEvent(h) ==
  /\ jobq[h].armed
  /\ EventsEmitted(Len(jobq)) < MaxEvents
  /\ LET ev == Len(jobq[h].emitted) + 1
     IN jobq' = [jobq EXCEPT ![h].emitted = Append(@, ev),
                             ![h].queue = Enqueue(@, ev)]

\* An execution that takes any queued event as soon as a worker is free.
ExecutionStarts_Unordered(h) ==
  /\ jobq[h].queue # <<>>
  /\ jobq[h].inFlight = 0
  /\ \E n \in 1..Len(jobq[h].queue) :
       jobq' = [jobq EXCEPT ![h].queue = SubSeq(@, 1, n - 1) \o SubSeq(@, n + 1, Len(@)),
                            ![h].inFlight = jobq[h].queue[n],
                            ![h].executed = Append(@, jobq[h].queue[n]),
                            ![h].early = @ \/ jobq[h].scheduling # "done"]

\* The execution job for the oldest queued event of the hash starts, once no
\* other job of the hash is in flight.
ExecutionStarts(h) ==
  /\ jobq[h].queue # <<>>
  /\ jobq[h].inFlight = 0
  /\ jobq[h].scheduling = "done"
  /\ jobq' = [jobq EXCEPT ![h].queue = Tail(@),
                          ![h].inFlight = Head(jobq[h].queue),
                          ![h].executed = Append(@, Head(jobq[h].queue)),
                          ![h].early = @ \/ jobq[h].scheduling # "done"]

\* The execution job in flight for the hash ends.
ExecutionCompletes(h) ==
  /\ jobq[h].inFlight # 0
  /\ jobq' = [jobq EXCEPT ![h].inFlight = 0]

orderRest == <<loopVars, schedVars, hubVars, apiVars, passVars, serveVars, evalVars, fireVars, configVars>>

InitOrder == OrderInit /\ LoopIdle /\ SchedIdle /\ HubIdle /\ ApiIdle /\ PassIdle /\ ServeIdle /\ EvalIdle /\ FireIdle /\ ConfigIdle

OrderNext ==
  \/ \E h \in 1..Len(jobq) : EnqueueScheduling(h) /\ UNCHANGED orderRest
  \/ \E h \in 1..Len(jobq) : SchedulingStarts(h) /\ UNCHANGED orderRest
  \/ \E h \in 1..Len(jobq) : SchedulingCreatesTrigger(h) /\ UNCHANGED orderRest
  \/ \E h \in 1..Len(jobq) : SchedulingCompletes(h) /\ UNCHANGED orderRest
  \/ \E h \in 1..Len(jobq) : EmitEvent(h) /\ UNCHANGED orderRest
  \/ \E h \in 1..Len(jobq) : ExecutionStarts(h) /\ UNCHANGED orderRest
  \/ \E h \in 1..Len(jobq) : ExecutionCompletes(h) /\ UNCHANGED orderRest

\* The jobs of two automations from boot on.
SpecOrder == InitOrder /\ [][OrderNext]_vars

\* ======================================================================
\*        CONFIG FILE: createConfigViaEnv, loadConfig, saveConfig
\* ======================================================================

\* The value of a property that is absent or undefined.
Undefined == "undefined"

\* What `if (x)` takes for false among the values of a string property.
Falsy(v) == v \in {Undefined, ""}

\* config.openAIProviders: an array, or undefined.
ProviderArray(items) == [defined |-> TRUE, items |-> items]

NoProviders == [defined |-> FALSE, items |-> <<>>]

ProviderNames == {"openai", "google", "scaleway"}

\* One entry of openAIProviders.
Providers == [providerName : ProviderNames, baseURL : {Undefined, "https://u"}, apiKey : {Undefined, "k"}]

\* The configs handed to saveConfig.
AppConfigs ==
  [automationModel : {"", "m"},
   visionModel : {"", "v"},
   haBaseUrl : {Undefined, "http://ha"},
   haToken : {Undefined, "", "t"},
   timezone : {Undefined, "tz"},
   anthropicApiKey : {Undefined, "a"},
   ollamaHost : {Undefined, "o"},
   openAIProviders : {NoProviders} \cup {ProviderArray(l) : l \in UNION {[1..n -> Providers] : n \in 0..MaxProviders}}]

\* Lines 283 and 352-355: the config of a missing or unusable file.
DefaultConfig ==
  [automationModel |-> "", visionModel |-> "", haBaseUrl |-> Undefined, haToken |-> Undefined,
   timezone |-> Undefined, anthropicApiKey |-> Undefined, ollamaHost |-> Undefined,
   openAIProviders |-> NoProviders]

\* tomlStructure.openai.key = apiKey: a string property of the openai table.
KeyEntry(apiKey) ==
  [name |-> "key", table |-> FALSE, str |-> apiKey, base_url |-> Undefined, key |-> Undefined]

\* tomlStructure.openai[providerName] = providerSection: a sub-table.
SectionEntry(name, url, key) ==
  [name |-> name, table |-> TRUE, str |-> Undefined, base_url |-> url, key |-> key]

\* obj[e.name] = e on an object kept as its properties in insertion order: a
\* property that exists keeps its place.
ObjSet(obj, e) ==
  IF \E i \in 1..Len(obj) : obj[i].name = e.name
  THEN [i \in 1..Len(obj) |-> IF obj[i].name = e.name THEN e ELSE obj[i]]
  ELSE Append(obj, e)

\* Lines 392-411: what one provider adds to tomlStructure.openai.
AddProvider(obj, provider) ==
  IF provider.providerName = "openai"
  THEN IF Falsy(provider.apiKey) THEN obj ELSE ObjSet(obj, KeyEntry(provider.apiKey))
  ELSE IF Falsy(provider.providerName) THEN obj
  ELSE IF Falsy(provider.baseURL) /\ Falsy(provider.apiKey) THEN obj
  ELSE ObjSet(obj, SectionEntry(provider.providerName,
                                IF Falsy(provider.baseURL) THEN Undefined ELSE provider.baseURL,
                                IF Falsy(provider.apiKey) THEN Undefined ELSE provider.apiKey))

\* Lines 389-416: the for loop over the first n providers; an openai table
\* that stays empty is removed, which here is the empty object.
RECURSIVE OpenAITable(_, _)
OpenAITable(items, n) ==
  IF n = 0 THEN <<>> ELSE AddProvider(OpenAITable(items, n - 1), items[n])

\* Lines 366-416: the structure saveConfig builds, a property left out being
\* undefined.
TomlStructure(config) ==
  [ha_base_url |-> IF Falsy(config.haBaseUrl) THEN Undefined ELSE config.haBaseUrl,
   ha_token |-> IF Falsy(config.haToken) THEN Undefined ELSE config.haToken,
   timezone |-> IF Falsy(config.timezone) THEN Undefined ELSE config.timezone,
   automation_model |-> IF Falsy(config.automationModel) THEN Undefined ELSE config.automationModel,
   vision_model |-> IF Falsy(config.visionModel) THEN Undefined ELSE config.visionModel,
   anthropic |-> IF Falsy(config.anthropicApiKey) THEN Undefined ELSE config.anthropicApiKey,
   ollama |-> IF Falsy(config.ollamaHost) THEN Undefined ELSE config.ollamaHost,
   openai |-> OpenAITable(config.openAIProviders.items, Len(config.openAIProviders.items))]

\* toml.stringify, then toml.parse of the text: a table's plain values are
\* written before its sub-tables, and read back in the order of the text.
TomlText(structure) ==
  [structure EXCEPT !.openai = SelectSeq(@, LAMBDA e : ~e.table) \o SelectSeq(@, LAMBDA e : e.table)]

\* The file: missing, holding text that is not TOML, or holding a document.
NoFile == [kind |-> "absent", doc |-> TomlStructure(DefaultConfig)]

Unparsable == [kind |-> "unparsable", doc |-> TomlStructure(DefaultConfig)]

TomlFile(structure) == [kind |-> "toml", doc |-> TomlText(structure)]

\* Lines 321-343: the provider one property of parsedToml.openai gives.
ProviderOf(e) ==
  IF e.name = "key" /\ ~e.table
  THEN [providerName |-> "openai", baseURL |-> Undefined, apiKey |-> e.str]
  ELSE [providerName |-> e.name, baseURL |-> e.base_url, apiKey |-> e.key]

\* Lines 300-357: loadConfig of a file; a read or a parse that throws is
\* caught and gives the default config.
LoadConfig(file) ==
  IF file.kind # "toml" THEN DefaultConfig
  ELSE LET parsedToml == file.doc
           handled == SelectSeq(parsedToml.openai, LAMBDA e : (e.name = "key" /\ ~e.table) \/ e.table)
       IN [automationModel |-> IF parsedToml.automation_model = Undefined THEN "" ELSE parsedToml.automation_model,
           visionModel |-> IF parsedToml.vision_model = Undefined THEN "" ELSE parsedToml.vision_model,
           haBaseUrl |-> parsedToml.ha_base_url,
           haToken |-> parsedToml.ha_token,
           timezone |-> parsedToml.timezone,
           anthropicApiKey |-> parsedToml.anthropic,
           ollamaHost |-> parsedToml.ollama,
           openAIProviders |-> IF handled = <<>> THEN NoProviders
                               ELSE ProviderArray([i \in 1..Len(handled) |-> ProviderOf(handled[i])])]

\* Lines 434-439: config.timezone ??= 'Etc/UTC'
MigrateConfig(config) ==
  IF config.timezone = Undefined THEN [config EXCEPT !.timezone = "Etc/UTC"] ELSE config

\* saveConfig is about to be called with a config on a path that holds no file.
RoundTripInit ==
  cfg \in [pc : {"save"}, config : AppConfigs, disk : {NoFile}, loaded : {DefaultConfig}]

\* Lines 360-432: saveConfig writes the text of the structure.
SaveConfig ==
  /\ cfg.pc = "save"
  /\ cfg' = [cfg EXCEPT !.pc = "load", !.disk = TomlFile(TomlStructure(cfg.config))]

\* Lines 300-357: loadConfig on the same path.
LoadSaved ==
  /\ cfg.pc = "load"
  /\ cfg' = [cfg EXCEPT !.pc = "done", !.loaded = LoadConfig(cfg.disk)]

configRest == <<loopVars, schedVars, hubVars, apiVars, passVars, serveVars, evalVars, fireVars, orderVars>>

InitRoundTrip == RoundTripInit /\ LoopIdle /\ SchedIdle /\ HubIdle /\ ApiIdle /\ PassIdle /\ ServeIdle /\ EvalIdle /\ FireIdle /\ OrderIdle

RoundTripNext ==
  \/ SaveConfig /\ UNCHANGED configRest
  \/ LoadSaved /\ UNCHANGED configRest

\* saveConfig followed by loadConfig, for every config.
SpecRoundTrip == InitRoundTrip /\ [][RoundTripNext]_vars

\* createConfigViaEnv is called on a notebook whose config file is missing,
\* is not TOML, or is a file saveConfig wrote before.
EnvInit ==
  \E file \in {NoFile, Unparsable} \cup {TomlFile(TomlStructure(c)) : c \in AppConfigs} :
    cfg = [pc |-> "access", config |-> DefaultConfig, disk |-> file, before |-> file]

\* Lines 286-291: fs.access, and loadConfig if the file is there.
AccessAndLoad ==
  /\ cfg.pc = "access"
  /\ cfg' = [cfg EXCEPT !.pc = "save",
                        !.config = IF cfg.disk.kind = "absent" THEN @ ELSE LoadConfig(cfg.disk)]

\* Lines 293-296: migrateConfig, then saveConfig of the result on the path.
MigrateAndSave ==
  /\ cfg.pc = "save"
  /\ LET config == MigrateConfig(cfg.config)
     IN cfg' = [cfg EXCEPT !.pc = "done", !.config = config, !.disk = TomlFile(TomlStructure(config))]

InitEnv == EnvInit /\ LoopIdle /\ SchedIdle /\ HubIdle /\ ApiIdle /\ PassIdle /\ ServeIdle /\ EvalIdle /\ FireIdle /\ OrderIdle

EnvNext ==
  \/ AccessAndLoad /\ UNCHANGED configRest
  \/ MigrateAndSave /\ UNCHANGED configRest

\* One call of createConfigViaEnv, for every file it may find.
SpecEnv == InitEnv /\ [][EnvNext]_vars

\* ======================================================================
\*                      PROPERTIES OF THE RECONCILER
\* ======================================================================

\* C1: when rescheduleAutomations examines an automation whose hash has a
\* signal row with isDead != true, it skips it: no scheduling conversation is
\* opened for that position of the list and no determine-signal row is added
\* for it; conversations and rows belong to examinations that found none.
C1_NoOpWhenScheduled ==
  /\ [][(/\ spc = "examine"
         /\ \E s \in signals : s.automationHash = current /\ s.isDead # TRUE)
        => /\ llmRuns' = llmRuns
           /\ automationLogs' = automationLogs
           /\ spc' \in {"examine", "done"}
           /\ idx' \in {idx, idx + 1}]_vars
  /\ [](\A k \in 1..Len(examined) :
          examined[k].alive => \A r \in 1..Len(llmRuns) : llmRuns[r].idx # examined[k].idx)
  /\ [](spc \in {"readMemory", "converse", "insertLog"} =>
          /\ examined # <<>>
          /\ Last(examined).idx = idx
          /\ ~Last(examined).alive)
  /\ [][automationLogs' # automationLogs =>
          /\ spc = "insertLog"
          /\ automationLogs' = Append(automationLogs, LogRow("determine-signal", current, transcript))]_vars

\* An automation with an alive signal was skipped, and the one after it was
\* scheduled and logged.
C1_Witness ==
  /\ Len(examined) = 2
  /\ examined[1].alive
  /\ Len(llmRuns) = 1
  /\ llmRuns[1].idx = 2
  /\ spc = "done"

\* The automations examined so far for which the store had no alive signal.
Unscheduled == {k \in 1..Len(examined) : ~examined[k].alive}

\* C12: every automation found without an alive signal gets one scheduling
\* conversation; a determine-signal row is written only once the drained
\* stream has ended, one row per conversation, with the automation's hash and
\* the whole drained transcript; when the reconciliation returns, the rows it
\* added are those of the unscheduled automations, in order.
C12_OneRowAfterDrain ==
  /\ [][automationLogs' # automationLogs =>
         /\ spc = "insertLog" /\ spc' # "insertLog"
         /\ Len(automationLogs') = Len(automationLogs) + 1
         /\ SubSeq(automationLogs', 1, Len(automationLogs)) = automationLogs
         /\ Last(automationLogs').type = "determine-signal"
         /\ Last(automationLogs').automationHash = automations[idx]
         /\ Last(automationLogs').messageLog = transcript]_vars
  /\ [][(spc' = "insertLog" /\ spc # "insertLog") => (spc = "converse" /\ transcript' = transcript)]_vars
  /\ [][spc = "insertLog" => transcript' = transcript]_vars
  /\ [](\A r1, r2 \in 1..Len(llmRuns) : llmRuns[r1].idx = llmRuns[r2].idx => r1 = r2)
  /\ [](spc = "done" =>
          /\ Len(llmRuns) = Cardinality(Unscheduled)
          /\ \A k \in Unscheduled : \E r \in 1..Len(llmRuns) :
               llmRuns[r].idx = examined[k].idx /\ llmRuns[r].hash = examined[k].hash
          /\ \E before \in PriorLogs :
               /\ Len(automationLogs) = Len(before) + Len(llmRuns)
               /\ SubSeq(automationLogs, 1, Len(before)) = before
               /\ \A r \in 1..Len(llmRuns) :
                    /\ automationLogs[Len(before) + r].type = "determine-signal"
                    /\ automationLogs[Len(before) + r].automationHash = llmRuns[r].hash)

\* Two unscheduled automations were each given a conversation and a row, the
\* first row holding a transcript of two entries.
C12_Witness ==
  /\ spc = "done"
  /\ Len(llmRuns) = 2
  /\ Len(automationLogs) >= 2
  /\ Len(automationLogs[Len(automationLogs) - 1].messageLog) = 2
  /\ automationLogs[Len(automationLogs) - 1].automationHash = automations[1]
  /\ Last(automationLogs).automationHash = automations[2]

\* C13: a provider timeout or error inside a scheduling job does not fail the
\* job: its determine-signal row is written, and the transcript of a row that
\* saw such a failure ends in the synthetic error message.
C13_ProviderFailureLogged ==
  /\ thrown # "provider"
  /\ \A k \in 1..Len(automationLogs) :
       (\E j \in 1..Len(automationLogs[k].messageLog) : automationLogs[k].messageLog[j] = "apology")
         => Last(automationLogs[k].messageLog) = "apology"

\* C14: a failing job (provider error, unreadable memory file, failed insert)
\* does not stop the reconciliation: once rescheduleAutomations is over, every
\* automation of the list has been examined.
C14_FailureDoesNotStop ==
  spc \in {"failed", "done"} =>
    \A i \in 1..Len(automations) : \E k \in 1..Len(examined) : examined[k].idx = i

\* ======================================================================
\*                      PROPERTIES OF THE HUB CLIENT
\* ======================================================================

\* C9: in test mode callService hands nothing to the connection, whether the
\* target passes validation or not, for one entity id and for an array.
C9_TestModeSendsNothing ==
  testMode => sent = <<>>

\* A valid and an invalid call, one with a single id and one with an array,
\* were made in test mode.
C9_Witness ==
  /\ testMode
  /\ \E i, j \in 1..Len(settled) :
       /\ settled[i].how = "resolved" /\ ~settled[i].opts.target.isArray
       /\ settled[j].how = "rejected" /\ settled[j].opts.target.isArray
       /\ Len(settled[j].opts.target.ids) = 2

\* C10: in test mode callService rejects exactly when some entity id of the
\* target has a domain prefix other than the domain, with an error naming such
\* an id and the domain; otherwise it resolves to null.
C10_TestModeValidation ==
  testMode =>
    \A i \in 1..Len(settled) :
      LET c == settled[i]
          bad == {k \in 1..Len(c.opts.target.ids) : c.opts.target.ids[k][1] # c.opts.domain}
      IN /\ c.how = "rejected" <=> bad # {}
         /\ c.how = "rejected" =>
              /\ \E k \in bad : c.err.id = c.opts.target.ids[k]
              /\ c.err.domain = c.opts.domain
         /\ c.how = "resolved" <=> bad = {}
         /\ c.how = "resolved" => c.value = "null"

\* An array whose second id is the only one off the domain was rejected, and an
\* array of two ids of the domain resolved.
C10_Witness ==
  /\ testMode
  /\ \E i, j \in 1..Len(settled) :
       /\ settled[i].how = "rejected"
       /\ settled[i].opts.target.ids = <<EntityId("light", "kitchen"), EntityId("switch", "porch")>>
       /\ settled[i].opts.domain = "light"
       /\ settled[j].how = "resolved"
       /\ settled[j].opts.target.ids = <<EntityId("light", "kitchen"), EntityId("light", "living_room")>>

\* C11: with test mode off, every callService call hands exactly one message
\* to the connection, in call order: type call_service with the call's domain,
\* service, service_data, target and return_response as the caller gave them.
C11_LiveSendsOneMessage ==
  ~testMode =>
    /\ Len(sent) = Len(settled)
    /\ \A i \in 1..Len(settled) :
         /\ sent[i].type = "call_service"
         /\ sent[i].domain = settled[i].opts.domain
         /\ sent[i].service = settled[i].opts.service
         /\ sent[i].service_data = settled[i].opts.service_data
         /\ sent[i].target = settled[i].opts.target
         /\ sent[i].return_response = settled[i].opts.return_response
         /\ DOMAIN sent[i] = {"type", "domain", "service", "service_data", "target", "return_response"}

\* The call of the test (light.turn_on on light.kitchen, with service_data and
\* return_response) and a call on an array target were made live.
C11_Witness ==
  /\ ~testMode
  /\ Len(settled) = 2
  /\ settled[1].opts.domain = "light"
  /\ settled[1].opts.target = [isArray |-> FALSE, ids |-> <<EntityId("light", "kitchen")>>]
  /\ settled[1].opts.return_response = "true"
  /\ settled[2].opts.target.isArray
  /\ Len(settled[2].opts.target.ids) = 2

\* ======================================================================
\*                      PROPERTIES OF THE TOOL LOOP
\* ======================================================================

\* The messages this invocation appended to the buffer (after previousMessages).
Own == SubSeq(msgs, Len(previousMessages) + 1, Len(msgs))

Ended == pc \in {"done", "failed"}

Replies == [i \in 1..Len(chatLog) |-> chatLog[i].reply]

IsAssistant(m) == m.role = "assistant"

\* The index of the first assistant message of `s` after position i, or
\* Len(s) + 1 when there is none.
NextAssistant(s, i) ==
  IF \E j \in (i + 1)..Len(s) : IsAssistant(s[j])
  THEN CHOOSE j \in (i + 1)..Len(s) :
         /\ IsAssistant(s[j])
         /\ \A k \in (i + 1)..(j - 1) : ~IsAssistant(s[k])
  ELSE Len(s) + 1

\* The assistant message at position i is closed: the next assistant message
\* has been emitted, or the sequence has ended.
Closed(s, i) == NextAssistant(s, i) <= Len(s) \/ Ended

\* C2: in the emitted sequence, every tool_use block of an assistant message
\* has a tool_result block with the same id before the next assistant message.
C2_Pairing ==
  \A i \in 1..Len(emitted) :
    (emitted[i].role = "assistant" /\ Closed(emitted, i)) =>
      \A b \in 1..Len(emitted[i].blocks) :
        emitted[i].blocks[b].type = "tool_use" =>
          \E j \in (i + 1)..(NextAssistant(emitted, i) - 1) :
            \E r \in 1..Len(emitted[j].blocks) :
              /\ emitted[j].blocks[r].type = "tool_result"
              /\ emitted[j].blocks[r].id = emitted[i].blocks[b].id

\* C3: the loop issues at most MAX_ITERATIONS provider requests, timeouts
\* counted, and the invocation ends: the sequence completes, unless the
\* provider request itself failed with an error.
C3_Terminates ==
  /\ [](Len(chatLog) <= MAX_ITERATIONS)
  /\ <>(pc = "done" \/ (pc = "failed" /\ Last(Replies) = "error"))

C3_Witness ==
  /\ pc = "done"
  /\ Len(chatLog) = MAX_ITERATIONS
  /\ \E i \in 1..Len(chatLog) : chatLog[i].reply = "timeout"
  /\ \E i \in 1..Len(chatLog) : chatLog[i].reply = "calls"

Answered == \E i \in 1..Len(chatLog) : chatLog[i].reply = "answer"

\* C4: once the provider has answered without tool calls, that answer is the
\* last element emitted, the sequence is complete, and no provider request,
\* tool call or emission follows.
C4_AnswerIsLast ==
  /\ [](Answered =>
         /\ pc = "done"
         /\ Last(Replies) = "answer"
         /\ Len(msgs) = Last(chatLog).sent + 1
         /\ Last(msgs).role = "assistant" /\ Last(msgs).kind = "answer"
         /\ Last(emitted).role = "assistant"
         /\ IF Last(msgs).hasCalls
            THEN Last(emitted) = BlocksParam("assistant", <<TextBlock("answer")>>)
            ELSE Last(emitted) = StringParam("assistant", "answer"))
  /\ [][Answered => UNCHANGED <<chatLog, handlerLog, msgs, emitted>>]_vars

C4_Witness ==
  /\ Answered
  /\ Len(chatLog) > 2
  /\ Len(handlerLog) > 0

\* The provider has timed out twice in a row, counting back from the last request.
TwoTimeoutsInARow ==
  /\ Len(chatLog) >= 2
  /\ chatLog[Len(chatLog)].reply = "timeout"
  /\ chatLog[Len(chatLog) - 1].reply = "timeout"

\* C5 as stated: after two consecutive provider timeouts no further provider
\* request is made.
C5_Original ==
  [][(\E i \in 1..(Len(chatLog) - 1) :
        chatLog[i].reply = "timeout" /\ chatLog[i + 1].reply = "timeout")
     => chatLog' = chatLog]_vars

\* C5 as amended: two consecutive provider timeouts do not end the loop; after
\* them the loop stands at the next provider request while fewer than
\* MAX_ITERATIONS requests were made, and is over only once that budget is used up.
C5_Amended ==
  TwoTimeoutsInARow =>
    /\ Last(msgs).kind = "apology"
    /\ pc = (IF Len(chatLog) < MAX_ITERATIONS THEN "loop" ELSE "done")

C5_Witness ==
  /\ Len(chatLog) >= 3
  /\ chatLog[1].reply = "timeout"
  /\ chatLog[2].reply = "timeout"

\* C6 as stated: no provider failure, a timeout or an error, makes the
\* sequence fail; each is surfaced as a synthetic assistant message.
C6_Original ==
  \A i \in 1..Len(chatLog) :
    chatLog[i].reply \in {"timeout", "error"} =>
      /\ pc # "failed"
      /\ Len(msgs) > chatLog[i].sent
      /\ msgs[chatLog[i].sent + 1].kind = "apology"

\* C6 as amended: a provider timeout is surfaced as a synthetic assistant
\* message, emitted, and does not fail the sequence; any other provider error
\* is rethrown: the sequence fails there, with no message added.
C6_Amended ==
  /\ \A i \in 1..Len(chatLog) :
       /\ chatLog[i].reply = "timeout" =>
            /\ Len(msgs) > chatLog[i].sent
            /\ msgs[chatLog[i].sent + 1] = OllamaMsg("assistant", "apology", NoTool, FALSE, <<>>)
            /\ (i = Len(chatLog) => pc \in {"loop", "done"})
       /\ chatLog[i].reply = "error" =>
            /\ i = Len(chatLog)
            /\ pc = "failed"
            /\ Len(msgs) = chatLog[i].sent
  /\ Len(emitted) = Len(Own)
  /\ \A k \in 1..Len(Own) :
       Own[k].kind = "apology" => emitted[k] = StringParam("assistant", "apology")
  /\ pc = "failed" => (chatLog # <<>> /\ Last(chatLog).reply = "error")

C6_Witness ==
  /\ pc = "failed"
  /\ \E i \in 1..Len(chatLog) : chatLog[i].reply = "timeout"

\* The positions of Own that hold an assistant message asking for tools.
ToolRounds == {i \in 1..Len(Own) : IsToolCallMsg(Own[i])}

\* How many of the tool calls of the message at position i have a message after it.
Seen(i) == IF Len(Own) - i < Len(Own[i].tool_calls) THEN Len(Own) - i ELSE Len(Own[i].tool_calls)

\* Every tool call asked for at position i is answered, in order, by the
\* message right after the previous one's; what is not answered yet is what
\* the for loop still holds.
RoundInOrder(i) ==
  /\ \A k \in 1..Seen(i) : Own[i + k].role = "tool" /\ Own[i + k].tool = Own[i].tool_calls[k]
  /\ Seen(i) < Len(Own[i].tool_calls) =>
       /\ pc = "tools"
       /\ toolCalls = SubSeq(Own[i].tool_calls, Seen(i) + 1, Len(Own[i].tool_calls))

\* (A result is the last thing that happened while the last provider request
\* was sent before it: Last(chatLog).sent < Len(msgs).)

\* The results of the calls that reached a handler.
HandledResults == SelectSeq(Own, LAMBDA m : m.role = "tool" /\ m.kind # "not-found")

ErrorKind(outcome) == IF outcome = "throw" THEN "error" ELSE "timed-out"

\* C7: a tool call that throws or times out leaves exactly one tool-result
\* message describing the error and naming the tool; the other calls of the
\* same assistant message are still made, the provider is asked again while
\* the budget lasts, and the invocation does not fail.
C7_ToolFailureContained ==
  /\ Len(HandledResults) = Len(handlerLog)
  /\ \A i \in 1..Len(handlerLog) :
       /\ HandledResults[i].tool = handlerLog[i].tool
       /\ handlerLog[i].outcome \in {"throw", "timeout"} =>
            HandledResults[i].kind = ErrorKind(handlerLog[i].outcome)
       /\ handlerLog[i].outcome = "ok" => HandledResults[i].kind = "ok"
  /\ Len(emitted) = Len(Own)
  /\ \A k \in 1..Len(Own) :
       (Own[k].role = "tool" /\ Own[k].kind \in {"error", "timed-out"}) =>
         /\ emitted[k].role = "user"
         /\ Len(emitted[k].blocks) = 1
         /\ emitted[k].blocks[1].type = "tool_result"
         /\ emitted[k].blocks[1].kind = Own[k].kind
         /\ emitted[k].blocks[1].name = Own[k].tool
  /\ \A i \in ToolRounds : RoundInOrder(i)
  /\ (Own # <<>> /\ Last(Own).role = "tool" /\ Last(chatLog).sent < Len(msgs)) =>
       pc = (IF toolCalls # <<>> THEN "tools"
             ELSE IF Len(chatLog) < MAX_ITERATIONS THEN "loop" ELSE "done")

\* A call threw, the next call of the same message timed out, and the provider
\* was asked again.
C7_Witness ==
  /\ Len(handlerLog) = 2
  /\ handlerLog[1].outcome = "throw"
  /\ handlerLog[2].outcome = "timeout"
  /\ \E i \in ToolRounds : Len(Own[i].tool_calls) = 2
  /\ Len(chatLog) >= 2
  /\ Last(chatLog).sent = Len(msgs)

\* C8: a call of a tool no client offers leaves one tool-result message saying
\* the tool was not found; no handler runs for it, nothing is thrown, and the
\* for loop goes on with the next call.
C8_UnknownTool ==
  /\ \A i \in 1..Len(handlerLog) : handlerLog[i].tool \in toolClientMap
  /\ Len(emitted) = Len(Own)
  /\ \A i \in ToolRounds :
       /\ Seen(i) < Len(Own[i].tool_calls) =>
            (pc = "tools" /\ Head(toolCalls) = Own[i].tool_calls[Seen(i) + 1])
       /\ \A k \in 1..Seen(i) :
            Own[i].tool_calls[k] \notin toolClientMap =>
              /\ Own[i + k] = OllamaMsg("tool", "not-found", Own[i].tool_calls[k], FALSE, <<>>)
              /\ emitted[i + k].role = "user"
              /\ Len(emitted[i + k].blocks) = 1
              /\ emitted[i + k].blocks[1].type = "tool_result"
              /\ emitted[i + k].blocks[1].kind = "not-found"
              /\ emitted[i + k].blocks[1].name = Own[i].tool_calls[k]
  /\ Count(Own, LAMBDA m : m.role = "tool") =
       Count(Own, LAMBDA m : m.role = "tool" /\ m.kind = "not-found") + Len(handlerLog)
  /\ (Own # <<>> /\ Last(Own).kind = "not-found" /\ Last(chatLog).sent < Len(msgs)) =>
       pc \in {"tools", "loop", "done"}

\* An unknown tool was asked for first, and the known one after it was called.
C8_Witness ==
  /\ \E i \in ToolRounds : Own[i].tool_calls = <<"bogus", "get-entities">>
  /\ Len(handlerLog) = 1
  /\ Count(Own, LAMBDA m : m.kind = "not-found") = 1

\* The number of blocks of a type in a sequence of canonical messages.
BlockCount(s, type) ==
  SeqSum([i \in 1..Len(s) |-> Cardinality({b \in 1..Len(s[i].blocks) : s[i].blocks[b].type = type})])

\* C15: in a completed transcript the tool_result blocks are as many as the
\* tool_use blocks, which are as many as the calls the model requested; each
\* requested call has one result, whether a handler ran for it (and returned,
\* threw or timed out) or no client offered the tool, the calls requested in
\* the last iteration of the budget included. Before the end the results are
\* behind by exactly the calls the for loop still holds.
C15_ResultPerCall ==
  /\ BlockCount(emitted, "tool_use") = Requested(Own)
  /\ BlockCount(emitted, "tool_result") + Len(toolCalls) = BlockCount(emitted, "tool_use")
  /\ BlockCount(emitted, "tool_result") =
       Len(handlerLog) + Count(Own, LAMBDA m : m.role = "tool" /\ m.kind = "not-found")
  /\ Ended => toolCalls = <<>>
  /\ \A i \in ToolRounds :
       \A k \in 1..Seen(i) :
         /\ emitted[i + k].role = "user"
         /\ Len(emitted[i + k].blocks) = 1
         /\ emitted[i + k].blocks[1].type = "tool_result"
         /\ emitted[i + k].blocks[1].name = Own[i].tool_calls[k]

\* The tenth and last provider request asked for two tools, one of them
\* unknown, and the transcript completed.
C15_Witness ==
  /\ pc = "done"
  /\ Len(chatLog) = MAX_ITERATIONS
  /\ Last(chatLog).reply = "calls"
  /\ Len(Own) = Last(chatLog).sent - Len(previousMessages) + 3
  /\ \E k \in 1..Len(Own) : Own[k].kind = "not-found"
  /\ Len(handlerLog) = 1

\* C16: the emitted sequence is the buffer after previousMessages, message by
\* message and in order, each in its canonical form; whatever a provider
\* request was sent beyond previousMessages had been emitted before, and no
\* step emits without appending to the buffer or appends without emitting.
C16_FaithfulTranscript ==
  /\ [](/\ pc # "setup" => Len(msgs) >= Len(previousMessages)
        /\ Len(emitted) = Len(Own)
        /\ \A k \in 1..Len(Own) :
             \E t \in 0..MaxClock : emitted[k] = convertOllamaMessageToAnthropic(Own[k], t)
        /\ \A i \in 1..Len(chatLog) :
             /\ chatLog[i].sent <= Len(msgs)
             /\ chatLog[i].sent - Len(previousMessages) <= Len(emitted))
  /\ [][pc # "setup" =>
         /\ Len(msgs') - Len(msgs) = Len(emitted') - Len(emitted)
         /\ Len(msgs') - Len(msgs) \in {0, 1}
         /\ SubSeq(msgs', 1, Len(msgs)) = msgs
         /\ SubSeq(emitted', 1, Len(emitted)) = emitted]_vars

\* After a previous conversation: a timeout, a tool round with a result, and
\* the answer, all emitted.
C16_Witness ==
  /\ pc = "done"
  /\ previousMessages # <<>>
  /\ Len(emitted) >= 5
  /\ \E k \in 1..Len(Own) : Own[k].kind = "apology"
  /\ \E k \in 1..Len(Own) : Own[k].role = "tool"
  /\ Last(Own).kind = "answer"

\* The emitted messages between the assistant message at i and the next one.
Between(s, i) == SubSeq(s, i + 1, NextAssistant(s, i) - 1)

IsResultMessage(e, n) ==
  /\ e.role = "user"
  /\ e.isArray
  /\ Len(e.blocks) = n
  /\ \A b \in 1..n : e.blocks[b].type = "tool_result"

\* C18 as stated: an assistant message with n tool calls is followed, once its
\* round is over, by a single user message that holds its n tool_result blocks.
C18_Original ==
  \A i \in 1..Len(emitted) :
    (i \in ToolRounds /\ Closed(emitted, i)) =>
      /\ Len(Between(emitted, i)) = 1
      /\ IsResultMessage(emitted[i + 1], Len(Own[i].tool_calls))

\* C18 as amended: every tool result is a user message of its own, holding one
\* tool_result block, emitted by the step in which its call finishes; an
\* assistant message with n tool calls is followed by n such messages, one per
\* call and in the order of the calls.
C18_Amended ==
  /\ [](\A i \in ToolRounds :
          /\ \A k \in 1..Seen(i) :
               /\ IsResultMessage(emitted[i + k], 1)
               /\ emitted[i + k].blocks[1].name = Own[i].tool_calls[k]
          /\ Closed(emitted, i) =>
               /\ Len(Between(emitted, i)) = Len(Own[i].tool_calls)
               /\ \A e \in 1..Len(Between(emitted, i)) : IsResultMessage(Between(emitted, i)[e], 1))
  /\ [][pc = "tools" =>
         /\ Len(emitted') = Len(emitted) + 1
         /\ SubSeq(emitted', 1, Len(emitted)) = emitted
         /\ IsResultMessage(Last(emitted'), 1)
         /\ Last(emitted').blocks[1].name = Head(toolCalls)]_vars

\* An assistant message asked for two tools; two user messages followed it and
\* then the next assistant message.
C18_Witness ==
  \E i \in ToolRounds :
    /\ Len(Own[i].tool_calls) = 2
    /\ NextAssistant(emitted, i) = i + 3
    /\ NextAssistant(emitted, i) <= Len(emitted)

UserPrompt == StringParam("user", "prompt")

NotReemitted == \A k \in 1..Len(emitted), j \in 1..Len(previousMessages) : emitted[k] # previousMessages[j]

\* C19 as stated: once set up, every invocation has emitted the user prompt
\* message as its first element, before its first provider request, and has
\* emitted none of previousMessages.
C19_Original ==
  pc # "setup" =>
    /\ emitted # <<>>
    /\ emitted[1] = UserPrompt
    /\ \A i \in 1..Len(chatLog) : chatLog[i].sent >= Len(previousMessages) + 1
    /\ NotReemitted

\* C19 as amended: an invocation whose prompt is not blank emits the user
\* prompt message first, before its first provider request, which is sent
\* previousMessages and the prompt; an invocation whose prompt is empty or all
\* blanks emits no user prompt message and sends its first request with
\* previousMessages alone, its first element being the provider's first
\* message; previousMessages are never emitted.
C19_Amended ==
  pc # "setup" =>
    /\ Trim(prompt) # <<>> =>
         /\ emitted # <<>>
         /\ emitted[1] = UserPrompt
         /\ \A i \in 1..Len(chatLog) : chatLog[i].sent >= Len(previousMessages) + 1
    /\ Trim(prompt) = <<>> =>
         /\ \A k \in 1..Len(emitted) : emitted[k].role # "user" \/ IsResultMessage(emitted[k], 1)
         /\ emitted = <<>> <=> (chatLog = <<>> \/ (Len(chatLog) = 1 /\ pc = "failed"))
         /\ chatLog # <<>> => chatLog[1].sent = Len(previousMessages)
         /\ emitted # <<>> => emitted[1].role = "assistant"
    /\ \A k \in 2..Len(emitted) : emitted[k] # UserPrompt
    /\ NotReemitted

\* With a previous conversation, a prompt that is not blank was emitted first
\* and the provider was asked after it.
C19_Witness ==
  /\ Trim(prompt) # <<>>
  /\ previousMessages # <<>>
  /\ Len(chatLog) >= 2
  /\ emitted[1] = UserPrompt
  /\ Len(emitted) >= 3

\* The last assistant message of Own that asks for tools.
LastRound == CHOOSE i \in ToolRounds : \A j \in ToolRounds : j <= i

\* C17: the generator is never suspended on more than one promise; a tool call
\* is started only when none is pending, and it is the first call the for loop
\* still holds, so calls start in the order of the response's tool_calls and
\* each after the one before it has returned, thrown or timed out; the results
\* stand in the buffer in that order.
C17_ToolsOneAtATime ==
  /\ [](Len(awaiting) <= 1)
  /\ [][(awaiting' # awaiting /\ awaiting' # <<>>) =>
         /\ awaiting = <<>>
         /\ Len(awaiting') = 1
         /\ pc = "tools" => awaiting'[1] = Head(toolCalls)]_vars
  /\ [][handlerLog' # handlerLog =>
         /\ awaiting = <<Head(toolCalls)>>
         /\ awaiting' = <<>>
         /\ Len(handlerLog') = Len(handlerLog) + 1
         /\ Last(handlerLog').tool = Head(toolCalls)
         /\ Len(msgs') = Len(msgs) + 1]_vars
  /\ [](\A i \in ToolRounds : \A k \in 1..Seen(i) :
          Own[i + k].role = "tool" /\ Own[i + k].tool = Own[i].tool_calls[k])
  /\ []((pc = "tools" /\ awaiting # <<>>) =>
          /\ Seen(LastRound) < Len(Own[LastRound].tool_calls)
          /\ toolCalls = SubSeq(Own[LastRound].tool_calls, Seen(LastRound) + 1, Len(Own[LastRound].tool_calls)))

\* The first of two calls of one response timed out, and the second is pending.
C17_Witness ==
  /\ pc = "tools"
  /\ Len(handlerLog) = 1
  /\ handlerLog[1].outcome = "timeout"
  /\ Len(Own[LastRound].tool_calls) = 2
  /\ awaiting = <<Own[LastRound].tool_calls[2]>>

\* C20: once the consumer has unsubscribed, the generator is not suspended on
\* any promise it was not suspended on before: no provider request and no
\* tool call is started.
C20_NoStartAfterAbandon ==
  [][~subscribed => (awaiting' = awaiting \/ awaiting' = <<>>)]_vars


\* ======================================================================
\*                    PROPERTIES OF THE PROMPT REQUESTS
\* ======================================================================

\* The request that created row i is over.
CreatorCompleted(i) == logs[i].by = 0 \/ reqs[logs[i].by].phase \in {"done", "error"}

\* Request r makes its final update in this step.
Persists(r) == reqs[r].phase = "stream" /\ reqs'[r].phase = "done"

\* C21 as stated: a manual row is never modified after the request that
\* created it has completed, whatever comes later, a follow-up prompt request
\* that continues the conversation included.
C21_Original ==
  [][\A i \in 1..Len(logs) :
       (logs[i].type = "manual" /\ CreatorCompleted(i)) => logs'[i] = logs[i]]_vars

\* C21 as amended: a manual row whose creating request has completed is
\* modified only by the final update of a follow-up prompt request that
\* continues its conversation (previousConversationId is the row's id), and
\* that update sets its messageLog to the messages the follow-up read from
\* the row followed by the follow-up's new messages.
C21_Amended ==
  [][\A i \in 1..Len(logs) :
       (logs[i].type = "manual" /\ CreatorCompleted(i) /\ logs'[i] # logs[i]) =>
         \E r \in 1..Len(reqs) :
           /\ Persists(r)
           /\ reqs[r].previousConversationId = i
           /\ logs'[i].type = "manual"
           /\ logs'[i].messageLog = FullMessageLog(reqs[r])]_vars

\* A follow-up request has continued the earlier conversation and rewritten
\* its row.
C21_Witness ==
  \E r \in 1..Len(reqs) :
    /\ reqs[r].phase = "done"
    /\ reqs[r].previousConversationId = 1
    /\ reqs[r].previousMessages # <<>>
    /\ logs[1].messageLog = FullMessageLog(reqs[r])
    /\ Len(logs[1].messageLog) > Len(reqs[r].previousMessages)

\* The rows request r has inserted.
RowsOf(r) == {i \in 1..Len(logs) : logs[i].by = r}

\* C29: a prompt request without previousConversationId inserts exactly one
\* manual row, and every message it emits carries that row's id as serverId,
\* also when a second message arrives before the first message's insert has
\* completed.
C29_OneRowOneServerId ==
  \A r \in 1..Len(reqs) :
    reqs[r].previousConversationId = NoId =>
      /\ Cardinality(RowsOf(r)) <= 1
      /\ reqs[r].phase = "done" => Cardinality(RowsOf(r)) = 1
      /\ \A k \in 1..Len(reqs[r].newMsgs) : RowsOf(r) = {reqs[r].newMsgs[k].serverId}

\* C30: when the message stream of a prompt request completes, its transcript
\* is persisted: a manual row exists whose messageLog is the previous
\* conversation's messages followed by all newly emitted messages in emission
\* order, for a new conversation, a continued one, and a
\* previousConversationId that matches no row.
C30_TranscriptPersisted ==
  [][\A r \in 1..Len(reqs) :
       Persists(r) =>
         \E i \in 1..Len(logs') :
           /\ logs'[i].type = "manual"
           /\ logs'[i].messageLog = FullMessageLog(reqs[r])]_vars

\* ======================================================================
\*                PROPERTIES OF THE RECONCILER UNDER OVERLAP
\* ======================================================================

\* Pass p has a scheduling job in flight: its conversation is open or its log
\* row is not written yet.
JobInFlight(p) == passes[p].pc \in {"converse", "insertLog"}

\* C22: scheduling jobs for the same automation hash are never in flight at
\* the same time, also with two files of identical contents in a list and
\* with overlapping reconcile passes.
C22_OneJobPerHash ==
  \A p, q \in 1..Len(passes) :
    (p # q /\ JobInFlight(p) /\ JobInFlight(q)) => PassHash(p) # PassHash(q)

\* ======================================================================
\*                    PROPERTIES OF THE SERVE COMMAND
\* ======================================================================

\* No start-up is under way.
Settled_Serve == \A k \in 1..Len(runtimes) : runtimes[k].pc = "installed"

\* C23: on shouldRestart the serve command tears the old runtime down and
\* starts a new one such that at most one runtime is started at any time,
\* also with several restart signals during a start-up; the runtime that
\* ends up current is the one started last.
C23_OneRuntimeStarted ==
  /\ Cardinality(Started) <= 1
  /\ (Settled_Serve /\ shutdown.pc = "idle") =>
       /\ Started = {currentRuntime}
       /\ runtimes[currentRuntime].nth = StartsSoFar

\* C24: on a signal the runtime first stops accepting and running jobs, then
\* the database is checkpointed, then the process exits: no job reads or
\* writes the database after the checkpoint has started or after the
\* connection has been destroyed.
C24_NoJobAfterCheckpoint ==
  \A n, c \in 1..Len(dbLog) :
    (dbLog[c][1] \in {"checkpoint", "destroy"} /\ c < n) => dbLog[n][1] # "job"

\* What holds of the restarts: once no start-up is under way, exactly the
\* runtime started last is started, and it is the current one.
Serve_LastStartedIsCurrent ==
  (Settled_Serve /\ shutdown.pc = "idle") =>
    /\ Started = {currentRuntime}
    /\ runtimes[currentRuntime].nth = StartsSoFar

\* ======================================================================
\*                  PROPERTIES OF THE EVALUATION HARNESS
\* ======================================================================

\* The sums over what the graders themselves returned.
RECURSIVE ReturnedScore(_)
ReturnedScore(n) == IF n = 0 THEN 0 ELSE ReturnedScore(n - 1) + run.returned[n].score

RECURSIVE ReturnedPossible(_)
ReturnedPossible(n) == IF n = 0 THEN 0 ELSE ReturnedPossible(n - 1) + run.returned[n].possible_score

\* C25: runScenario drains the whole conversation before grading and returns
\* one GradeResult per grader, finalScore being the sum of the graders'
\* scores and finalScorePossible the sum of their possible scores.
C25_ScenarioResult ==
  /\ \A g \in run.started : run.given[g] = run.emitted
  /\ run.pc = "returned" =>
       /\ run.result.messages = run.emitted
       /\ Len(run.result.gradeResults) = run.graders
       /\ \A g \in 1..run.graders :
            \E n \in 1..Len(run.result.gradeResults) : run.result.gradeResults[n] = run.returned[g]
       /\ run.result.finalScore = ReturnedScore(run.graders)
       /\ run.result.finalScorePossible = ReturnedPossible(run.graders)

\* A scenario with two graders and a conversation of two messages has
\* returned, its graders having returned different results.
C25_Witness ==
  /\ run.pc = "returned"
  /\ run.graders = 2
  /\ run.emitted = 2
  /\ run.returned[1] # run.returned[2]
  /\ run.result.finalScore > 0

\* C26: the content grader is applied to the whole transcript: its score is
\* the number of needles that occur in some message of the transcript and
\* its possible score the number of needles given.
C26_WholeTranscript ==
  grading.pc = "done" =>
    /\ grading.result.score =
         Cardinality({n \in 1..Len(grading.content) :
                        \E k \in 1..Len(grading.messages) : Includes(grading.messages[k], grading.content[n])})
    /\ grading.result.possible_score = Len(grading.content)

\* ======================================================================
\*               PROPERTIES OF SIGNAL FIRING AND JOB ORDERING
\* ======================================================================

InEmissionOrder(s) == \A n \in 1..Len(s) : s[n] = n

C31_AbandonCancels ==
  [][\A r \in 1..Len(reqs) :
       "client" \notin reqs[r].subscribers => reqs'[r].arrived = reqs[r].arrived]_vars

\* ======================================================================
\*                 PROPERTIES OF THE TOOL LOOP: TIMEOUTS
\* ======================================================================

IsApology(msg) == msg.role = "assistant" /\ msg.kind = "apology" /\ ~msg.hasCalls

Timeouts == {i \in 1..Len(chatLog) : chatLog[i].reply = "timeout"}

\* C32: each provider timeout appends exactly one synthetic assistant message
\* to the conversation and emits it, uses up one iteration of the
\* MAX_ITERATIONS budget, and the synthetic message is among the messages
\* sent with the next provider request.
C32_TimeoutMessage ==
  /\ iterationCount = Len(chatLog)
  /\ Len(chatLog) <= MAX_ITERATIONS
  /\ Cardinality({k \in 1..Len(msgs) : IsApology(msgs[k])}) = Cardinality(Timeouts)
  /\ Cardinality({k \in 1..Len(emitted) : emitted[k] = StringParam("assistant", "apology")})
       = Cardinality(Timeouts)
  /\ \A i \in Timeouts :
       /\ Len(msgs) > chatLog[i].sent
       /\ IsApology(msgs[chatLog[i].sent + 1])
       /\ Len(emitted) >= chatLog[i].sent + 1 - Len(previousMessages)
       /\ emitted[chatLog[i].sent + 1 - Len(previousMessages)] = StringParam("assistant", "apology")
       /\ i < Len(chatLog) => chatLog[i + 1].sent = chatLog[i].sent + 1

\* Two timeouts in a row, and a request after them that was sent with both
\* synthetic messages.
C32_Witness ==
  /\ Len(chatLog) >= 3
  /\ chatLog[1].reply = "timeout"
  /\ chatLog[2].reply = "timeout"
  /\ chatLog[3].sent = chatLog[1].sent + 2

\* The determine-signal rows written for hash h, as positions in the log.
DetermineRows(h) ==
  {k \in 1..Len(automationLogs) :
     automationLogs[k].type = "determine-signal" /\ automationLogs[k].automationHash = h}

\* The conversation with this transcript ended with an alive trigger of its
\* hash: it created one and did not cancel it afterwards.
LeavesAlive(log) ==
  \E i \in 1..Len(log) :
    /\ log[i] = "create-cron-trigger"
    /\ \A j \in (i + 1)..Len(log) : log[j] # "cancel-all-scheduled-triggers"

C34_ScoreInRange ==
  grading.pc = "done" =>
    /\ 0 <= grading.result.score
    /\ grading.result.score <= grading.result.possible_score

\* The entries of the database log of one kind.
DbEntries(kind) == {n \in 1..Len(dbLog) : dbLog[n][1] = kind}

\* C35: the shutdown sequence runs at most once per process: for any number
\* and interleaving of SIGINT, SIGTERM and SIGQUIT the database is
\* checkpointed at most once, destroyed at most once, and the exit timer is
\* set at most once.
C35_ShutdownOnce ==
  /\ Cardinality(DbEntries("checkpoint")) <= 1
  /\ Cardinality(DbEntries("destroy")) <= 1
  /\ shutdown.timers <= 1

\* Two different signals each called flushAndExit, and the process has
\* exited after one checkpoint, one destroy and one timer.
C35_Witness ==
  /\ Len(sigs) >= 2
  /\ sigs[1].runtime # 0 /\ sigs[2].runtime # 0
  /\ sigs[1].sig # sigs[2].sig
  /\ shutdown.pc = "exited"
  /\ Cardinality(DbEntries("checkpoint")) = 1
  /\ Cardinality(DbEntries("destroy")) = 1
  /\ shutdown.timers = 1

\* C36: every SIGINT or SIGTERM the serve command receives leads to the exit
\* of the process, also one that arrives while the first runtime is starting
\* up and one whose checkpoint fails.
C36_SignalLeadsToExit ==
  (\E n \in 1..Len(sigs) : sigs[n].sig \in {"SIGINT", "SIGTERM"}) ~> (shutdown.pc = "exited")

\* C37: the subscriptions made while starting a runtime are released when it
\* is replaced: a replaced runtime is stopped, its api instance no longer
\* subscribed to the websocket messages and its shouldRestart no longer
\* subscribed to, so that no message is handled by a replaced runtime's api.
C37_ReleasedOnReplace ==
  /\ \A k \in Replaced :
       ~runtimes[k].started /\ ~runtimes[k].rpc /\ ~runtimes[k].restart
  /\ \A n \in 1..Len(rpcLog) : rpcLog[n].handlers \cap rpcLog[n].replaced = {}

\* C38: saveConfig followed by loadConfig on the same path returns a config
\* equal to the one saved, for every AppConfig.
C38_RoundTrip ==
  cfg.pc = "done" => cfg.loaded = cfg.config

\* C39: if the existing config file cannot be parsed, its contents are left
\* as they were when createConfigViaEnv returns.
C39_FileKept ==
  (cfg.pc = "done" /\ cfg.before.kind = "unparsable") => cfg.disk = cfg.before

====
